---- MODULE Spec2Model ----
(***************************************************************************)
(* A model of the Memory Store Core of adaptive-agent-mcp:                 *)
(*   - lock_manager.py : LockManager, cross-process file locks             *)
(*   - indexer.py      : Indexer, the incremental index of the log files   *)
(*   - graph_store.py  : GraphStore, the knowledge graph                   *)
(*   - vector_store.py : VectorStore, documents, vectors, lexical index    *)
(*   - tools/semantic.py : the composition of search and re-ranking        *)
(*   - tools/memory.py, storage.py : append_daily_log, append_to_file      *)
(* Each subsystem has its own specification (SpecLock, SpecIndex,          *)
(* SpecGraph, ...) over its own variables; the other variables stay        *)
(* unchanged.                                                              *)
(***************************************************************************)
EXTENDS Integers, Sequences, FiniteSets, TLC

(***************************************************************************)
(* Lock Manager (lock_manager.py) and the operations that write persisted  *)
(* files.  A process is one OS process running the server; every process   *)
(* has its own LockManager class attributes (lockObj) and all processes    *)
(* share the lock files under .locks/ (osLock).                            *)
(***************************************************************************)

NumProcs == 2

Procs == 1..NumProcs

NoProc == 0

LockNames == {"memory", "knowledge", "daily_log"}

\* The operations that write a persisted file.
\*   save    GraphStore._save (add_entity, add_relation, add_triple)
\*   delete  GraphStore.delete_entity / delete_relation (lock, then _save)
\*   vadd    VectorStore.add
\*   index   Indexer._save_index (build_index)
\*   append  StorageValidation.append_to_file(use_lock=True)
\*   msave   MemoryParser.save
Ops == {"save", "delete", "vadd", "index", "append", "msave"}

\* The lock guards an operation enters, outermost first, before it writes.
Guards(o) ==
    CASE o = "save"    -> <<"knowledge">>
      [] o = "delete"  -> <<"knowledge", "knowledge">>
      [] o = "vadd"    -> <<"knowledge">>
      [] o = "index"   -> <<>>
      [] o = "append"  -> <<"daily_log">>
      [] o = "msave"   -> <<"memory">>

\* The persisted file an operation writes.
FileOf(o) ==
    CASE o = "save"    -> "graph"
      [] o = "delete"  -> "graph"
      [] o = "vadd"    -> "vectors"
      [] o = "index"   -> "index"
      [] o = "append"  -> "log"
      [] o = "msave"   -> "MEMORY.md"

IdleCall == [pc |-> "idle", op |-> "save", todo |-> <<>>, held |-> <<>>,
             exc |-> "none", wrote |-> FALSE, body |-> FALSE]

VARIABLES
    osLock,     \* [LockNames -> Procs \cup {NoProc}]: who holds .locks/<name>.lock
    lockObj,    \* [Procs -> [LockNames -> Nat]]: the re-entrancy counter of
                \* the process's cached FileLock (cls._memory_lock, ...)
    call        \* [Procs -> record]: the operation a process is running

VARIABLES
    files,        \* [MdPaths -> record]: the log files under memory/
    memDir,       \* whether the directory memory/ exists
    indexFile,    \* the persisted .index/memory_index.json
    cachedIndex,  \* Indexer._cached_index
    clock,        \* time.time()
    build,        \* what the last build_index() did (reset by file changes)
    load          \* what the last load_index() did

VARIABLES
    graph,        \* GraphStore._graph: not loaded yet, or the nodes
    snapshot,     \* the persisted .graph/knowledge.json
    gev           \* what the last GraphStore operation was and found

VARIABLES
    conn,         \* the database .vector/vectors.db as committed: the
                  \* documents table, the FTS5 index and the vec_index table
    SQLITE_VEC_AVAILABLE,  \* whether sqlite_vec was imported
    client,       \* VectorClient: embedding_available, rerank_available
    vev           \* what the last VectorStore operation was and returned

VARIABLES
    cachedLock,   \* LockManager._knowledge_lock of one process: None or
                  \* the FileLock object it caches
    lockTimeout,  \* the timeout attribute of each FileLock object, as
                  \* each thread reads it
    threadLocal,  \* whether a FileLock keeps its timeout per thread
    thread        \* [Threads -> record]: where each thread of the process
                  \* is in knowledge_lock(timeout)

VARIABLES
    stores,       \* [Procs -> record]: the GraphStore of each process (its
                  \* _graph) and where the process is in a mutator
    done          \* what the mutators that returned true have added, and
                  \* whether a mutator has failed

VARIABLES
    logFile,      \* today's daily log file: the blocks appended to it
    itemsFile,    \* knowledge/areas/general/items.json: the list of facts
    tool,         \* [Procs -> record]: where each process is in
                  \* append_daily_log
    returned      \* what the append_daily_log calls have returned

lockVars == <<osLock, lockObj, call>>

indexVars == <<files, memDir, indexFile, cachedIndex, clock, build, load>>

graphVars == <<graph, snapshot, gev>>

vectorVars == <<conn, SQLITE_VEC_AVAILABLE, client, vev>>

threadVars == <<cachedLock, lockTimeout, threadLocal, thread>>

sharedVars == <<stores, done>>

toolVars == <<logFile, itemsFile, tool, returned>>

vars == <<osLock, lockObj, call,
          files, memDir, indexFile, cachedIndex, clock, build, load,
          graph, snapshot, gev,
          conn, SQLITE_VEC_AVAILABLE, client, vev,
          cachedLock, lockTimeout, threadLocal, thread,
          stores, done,
          logFile, itemsFile, tool, returned>>

\* the variables the Lock Manager operations leave alone
notLockVars == <<indexVars, graphVars, vectorVars, threadVars, sharedVars, toolVars>>

\* the variables the Indexer operations leave alone
notIndexVars == <<lockVars, graphVars, vectorVars, threadVars, sharedVars, toolVars>>

\* the variables the GraphStore operations leave alone
notGraphVars == <<lockVars, indexVars, vectorVars, threadVars, sharedVars, toolVars>>

\* the variables the VectorStore operations leave alone
notVectorVars == <<lockVars, indexVars, graphVars, threadVars, sharedVars, toolVars>>

\* the variables the threads of one process leave alone
notThreadVars == <<lockVars, indexVars, graphVars, vectorVars, sharedVars, toolVars>>

\* the variables the processes on one snapshot leave alone
notSharedVars == <<call, indexVars, graph, gev, vectorVars, threadVars, toolVars>>

\* the variables the append_daily_log calls leave alone
notToolVars == <<call, indexVars, graphVars, vectorVars, threadVars, sharedVars>>

Range(s) == {s[i] : i \in DOMAIN s}

LockInit ==
    /\ osLock = [n \in LockNames |-> NoProc]
    /\ lockObj = [p \in Procs |-> [n \in LockNames |-> 0]]
    /\ call = [p \in Procs |-> IdleCall]

\* A caller starts operation o.
Call(p, o) ==
    /\ call[p].pc = "idle"
    /\ call' = [call EXCEPT ![p] =
                  [pc |-> IF Guards(o) = <<>> THEN "open" ELSE "acquire",
                   op |-> o, todo |-> Guards(o), held |-> <<>>,
                   exc |-> "none", wrote |-> FALSE, body |-> FALSE]]
    /\ UNCHANGED <<osLock, lockObj>>
    /\ UNCHANGED notLockVars

\* The OS grants the file lock whoever holds it.
CanLockAlways(p, n) == TRUE

\* The OS grants the file lock only when no process holds it.
CanLock(p, n) == osLock[n] = NoProc

\* A lock object without a nesting counter: entering it again while it is
\* held leaves it locked once.
AcquireUncounted(p) ==
    /\ call[p].pc = "acquire"
    /\ LET n == Head(call[p].todo) IN
         /\ \/ /\ lockObj[p][n] > 0
               /\ UNCHANGED <<osLock, lockObj>>
            \/ /\ lockObj[p][n] = 0
               /\ CanLock(p, n)
               /\ osLock' = [osLock EXCEPT ![n] = p]
               /\ lockObj' = [lockObj EXCEPT ![p][n] = 1]
         /\ call' = [call EXCEPT ![p].held = Append(@, n),
                                 ![p].todo = Tail(@),
                                 ![p].pc = IF Len(call[p].todo) = 1
                                           THEN "open" ELSE "acquire"]
    /\ UNCHANGED notLockVars

\* lock = cls._get_X_lock(); lock.timeout = timeout; with lock:
\* A FileLock is re-entrant: when this process's lock object is already
\* held its counter is incremented; otherwise the lock file must be free.
Acquire(p) ==
    /\ call[p].pc = "acquire"
    /\ LET n == Head(call[p].todo) IN
         /\ \/ /\ lockObj[p][n] > 0
               /\ UNCHANGED osLock
            \/ /\ lockObj[p][n] = 0
               /\ CanLock(p, n)
               /\ osLock' = [osLock EXCEPT ![n] = p]
         /\ lockObj' = [lockObj EXCEPT ![p][n] = @ + 1]
         /\ call' = [call EXCEPT ![p].held = Append(@, n),
                                 ![p].todo = Tail(@),
                                 ![p].pc = IF Len(call[p].todo) = 1
                                           THEN "open" ELSE "acquire"]
    /\ UNCHANGED notLockVars

\* The timeout is swallowed: the call returns as if it had succeeded.
AfterTimeoutSwallowed(c) == [c EXCEPT !.pc = "exit"]

\* except Timeout: raise Timeout(...) -- the call unwinds with the error.
AfterTimeout(c) == [c EXCEPT !.pc = "exit", !.exc = "Timeout"]

\* The lock file stayed held by another process for lock.timeout seconds:
\* FileLock raises Timeout and the guard re-raises it.
TimeoutRaise(p) ==
    /\ call[p].pc = "acquire"
    /\ LET n == Head(call[p].todo) IN
         /\ lockObj[p][n] = 0
         /\ osLock[n] \notin {NoProc, p}
    /\ call' = [call EXCEPT ![p] = AfterTimeout(@)]
    /\ UNCHANGED <<osLock, lockObj>>
    /\ UNCHANGED notLockVars

\* The body opens the persisted file for writing.
Open(p) ==
    /\ call[p].pc = "open"
    /\ call' = [call EXCEPT ![p].pc = "dump", ![p].body = TRUE]
    /\ UNCHANGED <<osLock, lockObj>>
    /\ UNCHANGED notLockVars

\* The body finishes the write (json.dump / commit / write_text).
Dump(p) ==
    /\ call[p].pc = "dump"
    /\ call' = [call EXCEPT ![p].pc = "exit", ![p].wrote = TRUE]
    /\ UNCHANGED <<osLock, lockObj>>
    /\ UNCHANGED notLockVars

\* The body raises (an I/O or database error).
BodyRaise(p) ==
    /\ call[p].pc \in {"open", "dump"}
    /\ call' = [call EXCEPT ![p].pc = "exit", ![p].body = TRUE,
                            ![p].exc = "Error"]
    /\ UNCHANGED <<osLock, lockObj>>
    /\ UNCHANGED notLockVars

\* The lock file is not unlocked when an exception is in flight.
ReleaseUnlessRaising(p, n) ==
    /\ lockObj' = [lockObj EXCEPT ![p][n] = @ - 1]
    /\ osLock' = IF lockObj[p][n] = 1 /\ call[p].exc = "none"
                 THEN [osLock EXCEPT ![n] = NoProc] ELSE osLock

\* FileLock.__exit__: the counter is decremented and the lock file is
\* unlocked when it reaches zero.
Release(p, n) ==
    /\ lockObj' = [lockObj EXCEPT ![p][n] = @ - 1]
    /\ osLock' = IF lockObj[p][n] = 1
                 THEN [osLock EXCEPT ![n] = NoProc] ELSE osLock

\* Leaving the innermost guard still entered, normally or by an exception.
ExitGuard(p) ==
    /\ call[p].pc = "exit"
    /\ call[p].held # <<>>
    /\ LET k == Len(call[p].held) IN
         /\ Release(p, call[p].held[k])
         /\ call' = [call EXCEPT ![p].held = SubSeq(@, 1, k - 1)]
    /\ UNCHANGED notLockVars

\* The operation returns to (or raises into) its caller.
Return(p) ==
    /\ call[p].pc = "exit"
    /\ call[p].held = <<>>
    /\ call' = [call EXCEPT ![p] = IdleCall]
    /\ UNCHANGED <<osLock, lockObj>>
    /\ UNCHANGED notLockVars

LockNext ==
    \E p \in Procs :
        \/ \E o \in Ops : Call(p, o)
        \/ Acquire(p)
        \/ TimeoutRaise(p)
        \/ Open(p)
        \/ Dump(p)
        \/ BodyRaise(p)
        \/ ExitGuard(p)
        \/ Return(p)

(***************************************************************************)
(* The read operations, run by processes next to the writers above.        *)
(***************************************************************************)

\* Indexer.load_index; GraphStore.query_relations, query_entity_neighbors,
\* multi_hop_query, get_entity, stats; VectorStore.search,
\* fulltext_search, get, count.
ReadOps == {"load_index", "query_relations", "query_entity_neighbors", "multi_hop_query", "get_entity", "stats", "search", "fulltext_search", "get", "count"}

\* The lock under which the writers of the file a read operation reads
\* write it; the index file has none (_save_index takes no lock).
WriterGuards(o) == IF o = "load_index" THEN <<>> ELSE <<"knowledge">>

\* Every reader enters the guard of the writers of what it reads.
ReadGuardsOfWriters(o) == WriterGuards(o)

\* The lock guards a read operation enters: none.  The readers reach the
\* files through self.graph (_load), self.conn and _load_raw_index, none
\* of which calls the Lock Manager.
ReadGuards(o) == <<>>

\* A caller starts read operation o.
CallRead(p, o) ==
    /\ call[p].pc = "idle"
    /\ call' = [call EXCEPT ![p] =
                  [pc |-> IF ReadGuards(o) = <<>> THEN "read" ELSE "acquire",
                   op |-> o, todo |-> ReadGuards(o), held |-> <<>>,
                   exc |-> "none", wrote |-> FALSE, body |-> FALSE]]
    /\ UNCHANGED <<osLock, lockObj>>
    /\ UNCHANGED notLockVars

\* The read operation reads what is persisted and returns, or raises (a
\* query of the wrong dimension, a database error).
Read(p) ==
    /\ call[p].pc = "read"
    /\ \E e \in {"none", "Error"} :
          call' = [call EXCEPT ![p].pc = "exit", ![p].body = TRUE,
                               ![p].exc = e]
    /\ UNCHANGED <<osLock, lockObj>>
    /\ UNCHANGED notLockVars

\* load_index finds no usable persisted index and calls build_index, which
\* writes the index file through _save_index.
Rebuild(p) ==
    /\ call[p].pc = "read"
    /\ call[p].op = "load_index"
    /\ call' = [call EXCEPT ![p].pc = "open"]
    /\ UNCHANGED <<osLock, lockObj>>
    /\ UNCHANGED notLockVars

ReadNext ==
    \/ LockNext
    \/ \E p \in Procs :
          \/ \E o \in ReadOps : CallRead(p, o)
          \/ Read(p)
          \/ Rebuild(p)

(***************************************************************************)
(* Claims about the Lock Manager, checked under SpecLock.                  *)
(***************************************************************************)

\* The processes inside a guarded section of lock n.
Inside(n) == {p \in Procs : n \in Range(call[p].held)}

\* The persisted file process p is writing (between open and close), if any.
Writing(p) == call[p].pc = "dump"

\* C1: for each lock name at most one process is inside the guarded
\* section at any instant, and it is the process that holds the lock file;
\* a second acquirer is still waiting (or has timed out), never inside.
C1_MutualExclusion ==
    \A n \in LockNames :
        /\ Cardinality(Inside(n)) <= 1
        /\ \A p \in Inside(n) : osLock[n] = p

\* C1 witness: one process is inside the knowledge section while another
\* one is blocked acquiring the same lock.
C1_Witness ==
    \E p, q \in Procs :
        /\ p # q
        /\ "knowledge" \in Range(call[p].held)
        /\ call[q].pc = "acquire"
        /\ Head(call[q].todo) = "knowledge"
        /\ call[q].held = <<>>

\* C2: once a process has left all its guards, normally or by an
\* exception, it holds no lock file and its lock objects are unlocked, so
\* the lock file is free for the next acquirer.
C2_ScopedRelease ==
    \A p \in Procs : \A n \in LockNames :
        n \notin Range(call[p].held) =>
            /\ osLock[n] # p
            /\ lockObj[p][n] = 0

\* C2 witness: a guarded body raised, the guards have been left and the
\* lock file is free again.
C2_Witness ==
    \E p \in Procs :
        /\ call[p].pc = "exit"
        /\ call[p].exc = "Error"
        /\ call[p].held = <<>>
        /\ Guards(call[p].op) # <<>>
        /\ osLock[Head(Guards(call[p].op))] = NoProc

\* C3: a call whose acquisition timed out ends with the Timeout error: it
\* never ran the guarded body, never wrote the persisted file and does not
\* go back to acquiring; and no call ends without an error unless it wrote.
C3_TimeoutSurfaced ==
    \A p \in Procs :
        /\ call[p].exc = "Timeout" =>
              /\ call[p].pc = "exit"
              /\ ~call[p].body
              /\ ~call[p].wrote
        /\ (call[p].pc = "exit" /\ call[p].exc = "none") => call[p].wrote

\* C3 witness: a call is about to raise Timeout into its caller.
C3_Witness ==
    \E p \in Procs :
        /\ call[p].pc = "exit"
        /\ call[p].exc = "Timeout"
        /\ call[p].held = <<>>
        /\ call[p].todo # <<>>

\* C4 (as claimed): every write of a persisted file by the Indexer, the
\* Knowledge Store or the Hybrid Store happens while the writer holds a
\* Lock Manager lock, and no two processes write the same file at once.
C4_WritesUnderLock ==
    /\ \A p \in Procs :
          (Writing(p) /\ FileOf(call[p].op) \in {"index", "graph", "vectors"})
              => \E n \in LockNames : osLock[n] = p
    /\ \A p, q \in Procs :
          (p # q /\ Writing(p) /\ Writing(q))
              => FileOf(call[p].op) # FileOf(call[q].op)

(***************************************************************************)
(* Indexer (indexer.py).  One process with its Indexer instance; the       *)
(* environment creates, modifies and deletes files under memory/.          *)
(***************************************************************************)

\* The largest modification time and clock reading of the model.
MaxTime == 1

Times == 0..MaxTime

\* Relative paths under memory/: two log files, which come and go, and one
\* file that is not a log file and is there whenever the directory is.
MdPaths == {"a.md", "b.md"}

OtherPaths == {"n.txt"}

Paths == MdPaths \cup OtherPaths

\* What the first 1000 characters of a file are:
\*   "hdr"     a YAML front matter block that parses into a mapping
\*   "garbled" a front matter block whose content is empty or is not YAML:
\*             _parse_yaml returns {}
\*   "plain"   no front matter block
\*   "bad"     reading or parsing raises (undecodable bytes, unreadable
\*             file, a front matter block that parses into a scalar or a
\*             list, on which metadata.get raises)
Hdrs == {"hdr", "garbled", "plain", "bad"}

\* The header of the files of class "hdr": a daily log header.
Header == [date |-> "2024-01-01", tags |-> <<"log">>, summary |-> "s", type |-> "daily_log"]

\* The date, tags, summary and type build_index stores for a file whose
\* first characters are of class h, a class that raises nothing.
Metadata(h) ==
    CASE h = "hdr"     -> Header
      [] h = "garbled" -> [date |-> "None", tags |-> <<>>, summary |-> "", type |-> "unknown"]
      [] h = "plain"   -> [date |-> "None", tags |-> <<>>, summary |-> "", type |-> "plain"]

INDEX_VERSION == "2.0"

\* the format version of an index written by an earlier release
OldVersion == "1.0"

NoFile == [exists |-> FALSE, mtime |-> 0, hdr |-> "plain"]

EmptyFiles == [p \in {} |-> 0]

\* No index: what _load_raw_index returns as None, and _cached_index = None.
NoIndex == [kind |-> "none", version |-> "", last_build |-> 0,
            files |-> EmptyFiles]

\* An index file that json.load cannot parse.
CorruptIndex == [kind |-> "corrupt", version |-> "", last_build |-> 0,
                 files |-> EmptyFiles]

\* An index file that parses as JSON but has no "files" key.
NoFilesIndex == [kind |-> "nofiles", version |-> OldVersion, last_build |-> 0,
                 files |-> EmptyFiles]

\* The index files a previous run may have left behind.
InitialIndexes ==
    {NoIndex, CorruptIndex, NoFilesIndex,
     [kind |-> "index", version |-> OldVersion, last_build |-> 0,
      files |-> [p \in {"a.md"} |-> [meta |-> "plain", mtime |-> 0]]]}

NoBuild == [valid |-> FALSE, force |-> FALSE, wasFresh |-> FALSE,
            prevKeys |-> {}, prevOld |-> FALSE,
            tried |-> {}, updated |-> {}, skipped |-> {}, ret |-> EmptyFiles]

NoLoad == [valid |-> FALSE, hadCache |-> FALSE, prevKind |-> "none", prevOld |-> FALSE,
           rebuilt |-> FALSE, ret |-> EmptyFiles]

IndexInit ==
    /\ files = [p \in MdPaths |-> NoFile]
    /\ memDir = TRUE
    /\ indexFile \in InitialIndexes
    /\ cachedIndex = NoIndex
    /\ clock = 0
    /\ build = NoBuild
    /\ load = NoLoad

\* for file in files: if not file.endswith(".md"): continue
EveryFileIsLog(p) == TRUE

IsLogFile(p) == p \in MdPaths

\* File(p): the file at path p.
File(p) == IF p \in MdPaths THEN files[p]
           ELSE [exists |-> memDir, mtime |-> 0, hdr |-> "plain"]

\* current_file_paths: the files of the os.walk that pass the filter.
CurrentFilePaths == {p \in Paths : memDir /\ File(p).exists /\ IsLogFile(p)}

\* _load_raw_index: None when the file is missing or cannot be parsed.
LoadRawIndex ==
    IF indexFile.kind \in {"index", "nofiles"} THEN indexFile ELSE NoIndex

\* The version check is missing: the entries of any index are reused.
ExistingFilesAnyVersion(existing_index) == existing_index.files

\* existing_files: the entries of the previous index, or none when there
\* is no previous index or its version differs from INDEX_VERSION.
ExistingFiles(existing_index) ==
    IF existing_index.kind = "index" /\ existing_index.version = INDEX_VERSION
    THEN existing_index.files
    ELSE EmptyFiles

\* An entry is reused only when the file is strictly older than it.
IsCacheHitStrict(existing_files, p) ==
    /\ p \in DOMAIN existing_files
    /\ existing_files[p].mtime > File(p).mtime

\* if rel_path in existing_files and cached_mtime >= current_mtime
IsCacheHit(existing_files, p) ==
    /\ p \in DOMAIN existing_files
    /\ existing_files[p].mtime >= File(p).mtime

\* The entry is stored without the file's current modification time.
ParseEntryNoMtime(f) == [meta |-> f.hdr, mtime |-> 0]

\* The entry computed from a file's header and its modification time.
ParseEntry(f) == [meta |-> f.hdr, mtime |-> f.mtime]

\* _build_metadata + final_index
FinalIndex(new_files_data) ==
    [kind |-> "index", version |-> INDEX_VERSION, last_build |-> clock,
     files |-> new_files_data]

\* build_index(force_full), including _save_index.
BuildIndex(force_full) ==
    LET existing_index == IF force_full THEN NoIndex ELSE LoadRawIndex
        existing_files == ExistingFiles(existing_index)
        skipped == {p \in CurrentFilePaths : IsCacheHit(existing_files, p)}
        tried   == CurrentFilePaths \ skipped
        updated == {p \in tried : File(p).hdr # "bad"}
        new_files_data ==
            [p \in skipped \cup updated |->
                IF p \in skipped THEN existing_files[p]
                                 ELSE ParseEntry(File(p))]
    IN  /\ indexFile' = FinalIndex(new_files_data)
        /\ cachedIndex' = FinalIndex(new_files_data)
        /\ build' = [valid |-> TRUE, force |-> force_full,
                     wasFresh |-> build.valid,
                     prevKeys |-> DOMAIN indexFile.files,
                     prevOld |-> (indexFile.kind = "index"
                                  /\ indexFile.version # INDEX_VERSION),
                     tried |-> tried, updated |-> updated,
                     skipped |-> skipped, ret |-> new_files_data]
        /\ UNCHANGED <<files, memDir, clock>>

\* A caller runs build_index(force_full).
DoBuild(force_full) ==
    /\ BuildIndex(force_full)
    /\ load' = NoLoad
    /\ UNCHANGED notIndexVars

\* load_index: the cached index; else the parsed index file when it has a
\* "files" key; else build_index().
LoadIndex ==
    /\ UNCHANGED notIndexVars
    /\ \/ /\ cachedIndex.kind # "none"
          /\ load' = [valid |-> TRUE, hadCache |-> TRUE, prevKind |-> indexFile.kind,
                      prevOld |-> (indexFile.kind = "index"
                                   /\ indexFile.version # INDEX_VERSION),
                      rebuilt |-> FALSE, ret |-> cachedIndex.files]
          /\ UNCHANGED <<files, memDir, indexFile, cachedIndex, clock, build>>
       \/ /\ cachedIndex.kind = "none"
          /\ LoadRawIndex.kind = "index"
          /\ cachedIndex' = LoadRawIndex
          /\ load' = [valid |-> TRUE, hadCache |-> FALSE, prevKind |-> indexFile.kind,
                      prevOld |-> (indexFile.version # INDEX_VERSION),
                      rebuilt |-> FALSE, ret |-> LoadRawIndex.files]
          /\ UNCHANGED <<files, memDir, indexFile, clock, build>>
       \/ /\ cachedIndex.kind = "none"
          /\ LoadRawIndex.kind # "index"
          /\ BuildIndex(FALSE)
          /\ load' = [valid |-> TRUE, hadCache |-> FALSE, prevKind |-> indexFile.kind,
                      prevOld |-> FALSE,
                      rebuilt |-> TRUE, ret |-> indexFile'.files]

\* The environment writes a log file (creates it or changes its content);
\* the file system records a modification time that is not in the future.
WriteFile(p, h, m) ==
    /\ memDir
    /\ m <= clock
    /\ files' = [files EXCEPT ![p] = [exists |-> TRUE, mtime |-> m, hdr |-> h]]
    /\ files' # files
    /\ build' = NoBuild
    /\ load' = NoLoad
    /\ UNCHANGED <<memDir, indexFile, cachedIndex, clock>>
    /\ UNCHANGED notIndexVars

\* The environment deletes a file.
DeleteFile(p) ==
    /\ files[p].exists
    /\ files' = [files EXCEPT ![p] = NoFile]
    /\ build' = NoBuild
    /\ load' = NoLoad
    /\ UNCHANGED <<memDir, indexFile, cachedIndex, clock>>
    /\ UNCHANGED notIndexVars

\* The environment removes the whole memory/ directory, or creates it.
ToggleDir ==
    /\ memDir' = ~memDir
    /\ files' = [p \in MdPaths |-> NoFile]
    /\ build' = NoBuild
    /\ load' = NoLoad
    /\ UNCHANGED <<indexFile, cachedIndex, clock>>
    /\ UNCHANGED notIndexVars

\* Time passes.
Tick ==
    /\ clock < MaxTime
    /\ clock' = clock + 1
    /\ UNCHANGED <<files, memDir, indexFile, cachedIndex, build, load>>
    /\ UNCHANGED notIndexVars

\* The server process is restarted: a new Indexer() has no cached index.
Restart ==
    /\ cachedIndex.kind # "none"
    /\ cachedIndex' = NoIndex
    /\ load' = NoLoad
    /\ UNCHANGED <<files, memDir, indexFile, clock, build>>
    /\ UNCHANGED notIndexVars

IndexNext ==
    \/ \E force_full \in BOOLEAN : DoBuild(force_full)
    \/ LoadIndex
    \/ \E p \in MdPaths, h \in Hdrs, m \in Times : WriteFile(p, h, m)
    \/ \E p \in MdPaths : DeleteFile(p)
    \/ ToggleDir
    \/ Tick
    \/ Restart

(***************************************************************************)
(* Claims about the Indexer, checked under SpecIndex.                      *)
(***************************************************************************)

\* The log files currently present under memory/.
PresentLogs == {p \in MdPaths : memDir /\ files[p].exists}

\* A step in which build_index() ran (called directly or by load_index).
\* build.valid in the state before it says that the previous build's result
\* is still current: no file changed since that build.
BuildStep == build'.valid /\ (build' # build \/ indexFile' # indexFile)

C6_Staleness ==
    [][(BuildStep /\ ~build'.force /\ indexFile.kind = "index"
          /\ indexFile.version = INDEX_VERSION) =>
          \A p \in PresentLogs :
              LET stale == \/ p \notin DOMAIN indexFile.files
                           \/ files[p].mtime > indexFile.files[p].mtime
              IN  /\ p \in build'.tried <=> stale
                  /\ p \in build'.skipped <=> ~stale
                  /\ ~stale => indexFile'.files[p] = indexFile.files[p]
                  /\ (stale /\ files[p].hdr # "bad") =>
                        /\ p \in build'.updated
                        /\ indexFile'.files[p] =
                              [meta |-> files[p].hdr, mtime |-> files[p].mtime]]_vars

\* C6 witness: both files were indexed, a.md was then modified at a later
\* time, and the incremental build recomputed a.md alone.
C6_Witness ==
    /\ build.valid /\ ~build.force /\ ~build.prevOld
    /\ build.prevKeys = MdPaths
    /\ build.tried = {"a.md"}
    /\ build.updated = {"a.md"}
    /\ build.skipped = {"b.md"}
    /\ indexFile.files["a.md"].mtime > indexFile.files["b.md"].mtime

C9_LoadIndexAsClaimed ==
    load.valid =>
        /\ load.hadCache =>
              (~load.rebuilt /\ load.ret = cachedIndex.files)
        /\ (~load.hadCache /\ load.prevKind = "index" /\ ~load.prevOld) =>
              (~load.rebuilt /\ load.ret = indexFile.files)
        /\ (~load.hadCache /\ (load.prevKind # "index" \/ load.prevOld)) =>
              (load.rebuilt /\ load.ret = build.ret
                 /\ indexFile.version = INDEX_VERSION)

(***************************************************************************)
(* Knowledge Store (graph_store.py): the entities of one GraphStore in a   *)
(* process that finds the knowledge lock free.                             *)
(***************************************************************************)

Ids == {"x", "y"}

Names == {"X", "Y"}

Types == {"t1", "t2"}

\* The attributes argument of add_entity: None (the default), {} or a map.
AttrArgs == {"None", "empty", "k"}

EmptyNodes == [i \in {} |-> 0]

\* a DiGraph without edges
EmptyEdges == [e \in {} |-> 0]

\* self._graph is None
NotLoaded == [loaded |-> FALSE, nodes |-> EmptyNodes, edges |-> EmptyEdges]

\* The "" that _load and _save put where a creation time is missing.
NoTime == -1

NoSnapshot == [kind |-> "none", nodes |-> {}, edges |-> {}]

\* a knowledge.json that json.load rejects (JSONDecodeError)
CorruptSnapshot == [kind |-> "corrupt", nodes |-> {}, edges |-> {}]

\* The record _save writes for x, and for an edge from x to y.
NodeX == [id |-> "x", name |-> "X", type |-> "t1", attributes |-> "empty",
          created_at |-> 0]

EdgeXY == [source |-> "x", target |-> "y", predicate |-> "P", weight |-> 1,
           source_doc |-> "", created_at |-> 0]

\* A knowledge.json whose node list holds x and then a record without
\* "id" (KeyError).
NoKeySnapshot == [kind |-> "nokey", nodes |-> {NodeX}, edges |-> {}]

\* A knowledge.json that is valid JSON but not an object (data.get raises
\* AttributeError), or whose bytes are not UTF-8 (UnicodeDecodeError).
BadShapeSnapshot == [kind |-> "badshape", nodes |-> {}, edges |-> {}]

\* A knowledge.json whose node list holds x and whose edge list holds an
\* element that is not an object (edge_data["source"] raises TypeError).
PartialSnapshot == [kind |-> "partial", nodes |-> {NodeX}, edges |-> {}]

\* The snapshots a previous run may have left behind; in the last one the
\* edge names a target that the node list does not hold.
InitialSnapshots ==
    {NoSnapshot, CorruptSnapshot, NoKeySnapshot, BadShapeSnapshot,
     PartialSnapshot,
     [kind |-> "graph", nodes |-> {NodeX}, edges |-> {EdgeXY}]}

NoGev == [op |-> "none", id |-> "x", name |-> "X", type |-> "t1",
          attrs |-> "None", existed |-> FALSE, created |-> 0, now |-> 0,
          count |-> 0]

GraphInit ==
    /\ graph = NotLoaded
    /\ snapshot \in InitialSnapshots
    /\ gev = NoGev

\* The node that nx.DiGraph.add_edge creates for an endpoint that is not in
\* the graph: it has no attributes, and every reader supplies the defaults.
BareNode == [name |-> "", type |-> "unknown", attributes |-> "empty",
             created_at |-> NoTime]

\* the loop over data["nodes"]
LoadNodes(recs) ==
    [i \in {r.id : r \in recs} |->
        LET r == CHOOSE r \in recs : r.id = i
        IN  [name |-> r.name, type |-> r.type,
             attributes |-> r.attributes, created_at |-> r.created_at]]

\* the loop over data["edges"]
LoadEdges(recs) ==
    [e \in {<<r.source, r.target>> : r \in recs} |->
        LET r == CHOOSE r \in recs : <<r.source, r.target>> = e
        IN  [predicate |-> r.predicate, weight |-> r.weight,
             source |-> r.source_doc, created_at |-> r.created_at]]

\* _load on the new DiGraph: what the graph holds afterwards, and whether
\* an error leaves _load.  JSONDecodeError and KeyError are caught and the
\* graph is replaced by an empty one; any other error propagates and the
\* graph keeps what had been added.
Load(snap) ==
    CASE snap.kind = "graph" ->
            LET nodes == LoadNodes(snap.nodes)
                edges == LoadEdges(snap.edges)
                ends  == {e[1] : e \in DOMAIN edges} \cup
                         {e[2] : e \in DOMAIN edges}
            IN  [nodes |-> [i \in DOMAIN nodes \cup ends |->
                               IF i \in DOMAIN nodes THEN nodes[i]
                                                     ELSE BareNode],
                 edges |-> edges, raised |-> FALSE]
      [] snap.kind \in {"none", "corrupt", "nokey"} ->
            [nodes |-> EmptyNodes, edges |-> EmptyEdges, raised |-> FALSE]
      [] snap.kind = "badshape" ->
            [nodes |-> EmptyNodes, edges |-> EmptyEdges, raised |-> TRUE]
      [] snap.kind = "partial" ->
            [nodes |-> LoadNodes(snap.nodes), edges |-> EmptyEdges,
             raised |-> TRUE]

\* The graph property: the graph, loaded from the snapshot on first access.
TheGraph ==
    IF graph.loaded THEN [nodes |-> graph.nodes, edges |-> graph.edges]
    ELSE [nodes |-> Load(snapshot).nodes, edges |-> Load(snapshot).edges]

\* The first access to the graph property raises out of _load.
LoadRaises == ~graph.loaded /\ Load(snapshot).raised

\* The edge list is written empty.
SaveWithoutEdges(g) ==
    [kind |-> "graph",
     nodes |-> {[id |-> i, name |-> g.nodes[i].name, type |-> g.nodes[i].type,
                 attributes |-> g.nodes[i].attributes,
                 created_at |-> g.nodes[i].created_at] : i \in DOMAIN g.nodes},
     edges |-> {}]

\* _save: one record per node and one per edge.
Save(g) ==
    [kind |-> "graph",
     nodes |-> {[id |-> i, name |-> g.nodes[i].name, type |-> g.nodes[i].type,
                 attributes |-> g.nodes[i].attributes,
                 created_at |-> g.nodes[i].created_at] : i \in DOMAIN g.nodes},
     edges |-> {[source |-> e[1], target |-> e[2],
                 predicate |-> g.edges[e].predicate,
                 weight |-> g.edges[e].weight,
                 source_doc |-> g.edges[e].source,
                 created_at |-> g.edges[e].created_at] : e \in DOMAIN g.edges}]

\* attributes or {}
OrEmpty(attributes) == IF attributes = "None" THEN "empty" ELSE attributes

\* The update also stamps the node with the time of the call.
UpdateNodeRestamped(old, name, entity_type, attributes, created_at) ==
    [name |-> name, type |-> entity_type,
     attributes |-> OrEmpty(attributes), created_at |-> created_at]

\* self.graph.nodes[entity_id].update({name, type, attributes})
UpdateNode(old, name, entity_type, attributes, created_at) ==
    [old EXCEPT !.name = name, !.type = entity_type,
                !.attributes = OrEmpty(attributes)]

\* self.graph.add_node(entity_id, name=, type=, attributes=, created_at=)
NewNode(name, entity_type, attributes, created_at) ==
    [name |-> name, type |-> entity_type,
     attributes |-> OrEmpty(attributes), created_at |-> created_at]

\* The graph after add_entity on graph g at time created_at.
WithEntity(g, entity_id, name, entity_type, attributes, created_at) ==
    [g EXCEPT !.nodes =
        [i \in DOMAIN g.nodes \cup {entity_id} |->
            IF i # entity_id THEN g.nodes[i]
            ELSE IF entity_id \in DOMAIN g.nodes
                 THEN UpdateNode(g.nodes[i], name, entity_type, attributes,
                                 created_at)
                 ELSE NewNode(name, entity_type, attributes, created_at)]]

\* A mutator leaves g in memory and, through _save, in the snapshot.
Store(g) ==
    /\ graph' = [loaded |-> TRUE, nodes |-> g.nodes, edges |-> g.edges]
    /\ snapshot' = Save(g)

\* A read leaves the graph loaded and the snapshot as it is.
Keep ==
    /\ graph' = [loaded |-> TRUE, nodes |-> TheGraph.nodes,
                 edges |-> TheGraph.edges]
    /\ snapshot' = snapshot

\* Any operation whose first access to the graph property raises: the
\* error leaves the operation, and the DiGraph that _load was filling stays
\* in self._graph.
AccessRaise ==
    /\ LoadRaises
    /\ graph' = [loaded |-> TRUE, nodes |-> Load(snapshot).nodes,
                 edges |-> Load(snapshot).edges]
    /\ gev' = [NoGev EXCEPT !.op = "raise"]
    /\ UNCHANGED <<snapshot, notGraphVars>>

(***************************************************************************)
(* Texts.  A text that the code converts (lower, upper, replace) is a      *)
(* sequence of characters; Str gives the string with those characters.     *)
(***************************************************************************)

RECURSIVE Str(_)
Str(cs) == IF cs = <<>> THEN "" ELSE Head(cs) \o Str(Tail(cs))

\* the letters of the model and their other case
LowerOf == ("X" :> "x") @@ ("A" :> "a") @@ ("P" :> "p") @@ ("Q" :> "q")

UpperOf == ("x" :> "X") @@ ("a" :> "A") @@ ("b" :> "B") @@ ("p" :> "P")
           @@ ("q" :> "Q")

\* str.lower()
Lower(cs) ==
    [i \in 1..Len(cs) |-> IF cs[i] \in DOMAIN LowerOf THEN LowerOf[cs[i]]
                          ELSE cs[i]]

\* str.upper()
Upper(cs) ==
    [i \in 1..Len(cs) |-> IF cs[i] \in DOMAIN UpperOf THEN UpperOf[cs[i]]
                          ELSE cs[i]]

\* str.replace(" ", "_")
Underscored(cs) == [i \in 1..Len(cs) |-> IF cs[i] = " " THEN "_" ELSE cs[i]]

\* The id keeps its spaces.
NormalizeLowerOnly(text) == Str(Lower(text))

\* triple.subject.lower().replace(" ", "_")
Normalize(text) == Str(Underscored(Lower(text)))

\* predicate.upper()
StoredPredicate(predicate) == Str(Upper(predicate))

\* The subject and object texts of a triple, the entity ids that the
\* callers of add_relation name, and the ids that queries name.
Texts == {<<"X">>, <<"A", " ", "b">>, <<>>}

RelIds == {"x", "a_b"}

QueryIds == {"x", "a_b", ""}

\* The predicate, weight and source of an add_relation call.
RelArgs ==
    {[predicate |-> <<"p">>, weight |-> 1, source |-> ""],
     [predicate |-> <<"P">>, weight |-> 1, source |-> ""],
     [predicate |-> <<"Q">>, weight |-> 2, source |-> "doc"]}

\* The triples of add_triple: the two type hints differ.
Triples ==
    [subject : Texts, predicate : {<<"p">>}, object : Texts,
     subject_type : {"t1"}, object_type : {"t2"}]

\* The relation mutators stop adding at MaxEdges relations.
MaxEdges == 2

EdgeCap(g) == Cardinality(DOMAIN g.edges) <= MaxEdges

(***************************************************************************)
(* Relations.                                                              *)
(***************************************************************************)

\* The endpoints are not created first.
EnsureNodeNever(g, entity_id, created_at) == g

\* if not self.graph.has_node(id): self.add_entity(id, id, "unknown")
EnsureNode(g, entity_id, created_at) ==
    IF entity_id \in DOMAIN g.nodes THEN g
    ELSE WithEntity(g, entity_id, entity_id, "unknown", "None", created_at)

\* An edge that is there already is kept as it is.
PutEdgeKeepOld(edges, e, attrs) ==
    IF e \in DOMAIN edges THEN edges
    ELSE [f \in DOMAIN edges \cup {e} |-> IF f = e THEN attrs ELSE edges[f]]

\* self.graph.add_edge(u, v, **attrs): one edge per ordered pair
PutEdge(edges, e, attrs) ==
    [f \in DOMAIN edges \cup {e} |-> IF f = e THEN attrs ELSE edges[f]]

\* The graph after add_relation on graph g at time created_at.
WithRelation(g, subject_id, predicate, object_id, weight, source, created_at) ==
    LET g2 == EnsureNode(EnsureNode(g, subject_id, created_at), object_id,
                         created_at)
    IN  [g2 EXCEPT !.edges =
            PutEdge(g2.edges, <<subject_id, object_id>>,
                    [predicate |-> StoredPredicate(predicate),
                     weight |-> weight, source |-> source,
                     created_at |-> created_at])]

\* The graph after add_triple on graph g at time created_at.
WithTriple(g, triple, source, created_at) ==
    LET subject_id == Normalize(triple.subject)
        object_id  == Normalize(triple.object)
        g1 == WithEntity(g, subject_id, Str(triple.subject),
                         triple.subject_type, "None", created_at)
        g2 == WithEntity(g1, object_id, Str(triple.object),
                         triple.object_type, "None", created_at)
    IN  WithRelation(g2, subject_id, triple.predicate, object_id, 1, source,
                     created_at)

\* The edges of the node stay in the graph.
WithoutNodeOnly(g, entity_id) ==
    [nodes |-> [i \in DOMAIN g.nodes \ {entity_id} |-> g.nodes[i]],
     edges |-> g.edges]

\* self.graph.remove_node(entity_id): the node and its incident edges
WithoutNode(g, entity_id) ==
    [nodes |-> [i \in DOMAIN g.nodes \ {entity_id} |-> g.nodes[i]],
     edges |-> [e \in {f \in DOMAIN g.edges :
                          f[1] # entity_id /\ f[2] # entity_id} |->
                   g.edges[e]]]

\* self.graph.remove_edge(subject_id, object_id)
WithoutEdge(g, subject_id, object_id) ==
    [g EXCEPT !.edges =
        [e \in DOMAIN g.edges \ {<<subject_id, object_id>>} |-> g.edges[e]]]

\* add_entity(entity_id, name, entity_type, attributes), _save included.
AddEntity(entity_id, name, entity_type, attributes) ==
    LET g == TheGraph
    IN  /\ ~LoadRaises
        /\ Store(WithEntity(g, entity_id, name, entity_type, attributes,
                            clock))
        /\ gev' = [op |-> "add_entity", id |-> entity_id, name |-> name,
                   type |-> entity_type, attrs |-> attributes,
                   existed |-> entity_id \in DOMAIN g.nodes,
                   created |-> IF entity_id \in DOMAIN g.nodes
                               THEN g.nodes[entity_id].created_at ELSE 0,
                   now |-> clock,
                   count |-> Cardinality(DOMAIN g.nodes)]
        /\ UNCHANGED notGraphVars

\* get_entity(entity_id): a read; the first access loads the graph.
GetEntity(entity_id) ==
    LET found == entity_id \in DOMAIN TheGraph.nodes
    IN  /\ ~LoadRaises
        /\ Keep
        /\ gev' = [op |-> "get_entity", id |-> entity_id, existed |-> found,
                   ret |-> IF found THEN <<TheGraph.nodes[entity_id]>>
                                    ELSE <<>>,
                   locked |-> FALSE]
        /\ UNCHANGED notGraphVars

\* add_relation(subject_id, predicate, object_id, weight, source), with
\* the add_entity calls for missing endpoints and every _save.
AddRelation(subject_id, predicate, object_id, weight, source) ==
    /\ ~LoadRaises
    /\ EdgeCap(WithRelation(TheGraph, subject_id, predicate, object_id,
                            weight, source, clock))
    /\ Store(WithRelation(TheGraph, subject_id, predicate, object_id, weight,
                          source, clock))
    /\ gev' = [op |-> "add_relation", subject_id |-> subject_id,
               predicate |-> predicate, object_id |-> object_id,
               weight |-> weight, source |-> source, now |-> clock,
               existed |-> <<subject_id, object_id>> \in DOMAIN TheGraph.edges,
               count |-> Cardinality(DOMAIN TheGraph.edges),
               ret |-> TRUE, locked |-> TRUE]
    /\ UNCHANGED notGraphVars

\* add_triple(triple, source)
AddTriple(triple, source) ==
    /\ ~LoadRaises
    /\ EdgeCap(WithTriple(TheGraph, triple, source, clock))
    /\ Store(WithTriple(TheGraph, triple, source, clock))
    /\ gev' = [op |-> "add_triple", triple |-> triple, source |-> source,
               now |-> clock, ret |-> TRUE, locked |-> TRUE]
    /\ UNCHANGED notGraphVars

\* delete_entity(entity_id)
DeleteEntity(entity_id) ==
    LET found == entity_id \in DOMAIN TheGraph.nodes
    IN  /\ ~LoadRaises
        /\ IF found THEN Store(WithoutNode(TheGraph, entity_id)) ELSE Keep
        /\ gev' = [op |-> "delete_entity", id |-> entity_id, ret |-> found,
                   locked |-> found]
        /\ UNCHANGED notGraphVars

\* delete_relation(subject_id, object_id)
DeleteRelation(subject_id, object_id) ==
    LET found == <<subject_id, object_id>> \in DOMAIN TheGraph.edges
    IN  /\ ~LoadRaises
        /\ IF found THEN Store(WithoutEdge(TheGraph, subject_id, object_id))
                    ELSE Keep
        /\ gev' = [op |-> "delete_relation", subject_id |-> subject_id,
                   object_id |-> object_id, ret |-> found, locked |-> found]
        /\ UNCHANGED notGraphVars

(***************************************************************************)
(* Queries.  An optional argument is <<>> for None and <<v>> for v.        *)
(***************************************************************************)

None == <<>>

Some(v) == <<v>>

\* "if subject_id": the argument is neither None nor the empty string
TruthyId(opt) == opt # None /\ opt[1] # ""

\* "if predicate": the argument is neither None nor the empty string
TruthyText(opt) == opt # None /\ opt[1] # <<>>

\* The elements of a finite set in an order; the order in which networkx
\* lists nodes and edges (that of their insertion) is not kept.
RECURSIVE SetToSeq(_)
SetToSeq(S) ==
    IF S = {} THEN <<>>
    ELSE LET x == CHOOSE x \in S : TRUE IN <<x>> \o SetToSeq(S \ {x})

\* The filters are alternatives: an edge that passes one of them is kept.
PassesAnyFilter(g, e, subject_id, predicate, object_id) ==
    \/ ~(TruthyId(subject_id) /\ e[1] # subject_id[1])
    \/ ~(TruthyText(predicate)
           /\ g.edges[e].predicate # StoredPredicate(predicate[1]))
    \/ ~(TruthyId(object_id) /\ e[2] # object_id[1])

\* the three "continue" tests of query_relations
PassesFilters(g, e, subject_id, predicate, object_id) ==
    /\ ~(TruthyId(subject_id) /\ e[1] # subject_id[1])
    /\ ~(TruthyText(predicate)
           /\ g.edges[e].predicate # StoredPredicate(predicate[1]))
    /\ ~(TruthyId(object_id) /\ e[2] # object_id[1])

\* The result of query_relations on graph g: (s, predicate, o, attrs).
RelationsOf(g, subject_id, predicate, object_id) ==
    {<<e[1], g.edges[e].predicate, e[2], g.edges[e]>> :
        e \in {f \in DOMAIN g.edges :
                  PassesFilters(g, f, subject_id, predicate, object_id)}}

\* query_relations(subject_id, predicate, object_id)
QueryRelations(subject_id, predicate, object_id) ==
    /\ ~LoadRaises
    /\ Keep
    /\ gev' = [op |-> "query_relations", subject_id |-> subject_id,
               predicate |-> predicate, object_id |-> object_id,
               ret |-> RelationsOf(TheGraph, subject_id, predicate,
                                   object_id),
               locked |-> FALSE]
    /\ UNCHANGED notGraphVars

\* One direction of query_entity_neighbors: the neighbours over the edges
\* es, each with the edge's predicate and the neighbour's attributes.
NeighborsOver(g, es, end, predicate) ==
    LET kept == {e \in es :
                    ~(TruthyText(predicate)
                        /\ g.edges[e].predicate
                             # StoredPredicate(predicate[1]))}
        es_seq == SetToSeq(kept)
    IN  [i \in 1..Len(es_seq) |->
            <<es_seq[i][end], g.edges[es_seq[i]].predicate,
              g.nodes[es_seq[i][end]]>>]

\* The result of query_entity_neighbors on graph g.
NeighborsOf(g, entity_id, predicate, direction) ==
    IF entity_id \notin DOMAIN g.nodes THEN <<>>
    ELSE (IF direction \in {"out", "both"}
          THEN NeighborsOver(g, {e \in DOMAIN g.edges : e[1] = entity_id},
                             2, predicate)
          ELSE <<>>)
         \o
         (IF direction \in {"in", "both"}
          THEN NeighborsOver(g, {e \in DOMAIN g.edges : e[2] = entity_id},
                             1, predicate)
          ELSE <<>>)

\* query_entity_neighbors(entity_id, predicate, direction)
QueryEntityNeighbors(entity_id, predicate, direction) ==
    /\ ~LoadRaises
    /\ Keep
    /\ gev' = [op |-> "query_entity_neighbors", id |-> entity_id,
               predicate |-> predicate, direction |-> direction,
               found |-> entity_id \in DOMAIN TheGraph.nodes,
               ret |-> NeighborsOf(TheGraph, entity_id, predicate, direction),
               locked |-> FALSE]
    /\ UNCHANGED notGraphVars

\* The search goes one hop further than max_depth.
DepthExceededLate(path, max_depth) == Len(path) > max_depth + 1

\* if len(path) > max_depth: return
DepthExceeded(path, max_depth) == Len(path) > max_depth

\* Only the first successor is followed.
FirstSuccessorOnly(g, current) ==
    LET ns == SetToSeq({n \in DOMAIN g.nodes :
                           <<current, n>> \in DOMAIN g.edges})
    IN  IF ns = <<>> THEN <<>> ELSE <<Head(ns)>>

\* self.graph.successors(current)
Successors(g, current) ==
    SetToSeq({n \in DOMAIN g.nodes : <<current, n>> \in DOMAIN g.edges})

\* dfs(current, remaining_predicates, path): the paths it appends, in
\* order.  DfsEach is its loop over the neighbours that remain.
RECURSIVE Dfs(_, _, _, _, _), DfsEach(_, _, _, _, _, _)
Dfs(g, current, remaining_predicates, path, max_depth) ==
    IF remaining_predicates = <<>> THEN <<path>>
    ELSE IF DepthExceeded(path, max_depth) THEN <<>>
    ELSE DfsEach(g, current, remaining_predicates, path, max_depth,
                 Successors(g, current))

\* The loop skips the neighbours that are on the path already: only paths
\* that visit no node twice are followed.
RECURSIVE DfsEachUnvisited(_, _, _, _, _, _)
DfsEachUnvisited(g, current, remaining_predicates, path, max_depth, neighbors) ==
    IF neighbors = <<>> THEN <<>>
    ELSE LET neighbor == Head(neighbors)
             target_predicate == Str(Upper(Head(remaining_predicates)))
         IN  (IF /\ g.edges[<<current, neighbor>>].predicate = target_predicate
                 /\ neighbor \notin Range(path)
              THEN Dfs(g, neighbor, Tail(remaining_predicates),
                       Append(path, neighbor), max_depth)
              ELSE <<>>)
             \o DfsEachUnvisited(g, current, remaining_predicates, path,
                                 max_depth, Tail(neighbors))

DfsEach(g, current, remaining_predicates, path, max_depth, neighbors) ==
    IF neighbors = <<>> THEN <<>>
    ELSE LET neighbor == Head(neighbors)
             target_predicate == Str(Upper(Head(remaining_predicates)))
         IN  (IF g.edges[<<current, neighbor>>].predicate = target_predicate
              THEN Dfs(g, neighbor, Tail(remaining_predicates),
                       Append(path, neighbor), max_depth)
              ELSE <<>>)
             \o DfsEach(g, current, remaining_predicates, path, max_depth,
                        Tail(neighbors))

\* The start entity is not looked up first.
MultiHopOfNoCheck(g, start_id, predicates, max_depth) ==
    Dfs(g, start_id, predicates, <<start_id>>, max_depth)

\* The result of multi_hop_query on graph g.
MultiHopOf(g, start_id, predicates, max_depth) ==
    IF start_id \notin DOMAIN g.nodes THEN <<>>
    ELSE Dfs(g, start_id, predicates, <<start_id>>, max_depth)

\* multi_hop_query(start_id, predicates, max_depth)
MultiHopQuery(start_id, predicates, max_depth) ==
    /\ ~LoadRaises
    /\ Keep
    /\ gev' = [op |-> "multi_hop_query", id |-> start_id,
               predicates |-> predicates, max_depth |-> max_depth,
               found |-> start_id \in DOMAIN TheGraph.nodes,
               ret |-> MultiHopOf(TheGraph, start_id, predicates, max_depth),
               locked |-> FALSE]
    /\ UNCHANGED notGraphVars

\* The server process is restarted: a new GraphStore() has loaded nothing.
RestartGraph ==
    /\ graph.loaded
    /\ graph' = NotLoaded
    /\ gev' = NoGev
    /\ UNCHANGED <<snapshot, notGraphVars>>

\* The store over time: entities in all their values, and one relation,
\* one triple and the deletions that undo them.
GraphNext ==
    \/ \E i \in Ids, n \in Names, t \in Types, a \in AttrArgs :
          AddEntity(i, n, t, a)
    \/ \E i \in Ids : GetEntity(i)
    \/ AddRelation("x", <<"Q">>, "y", 2, "doc")
    \/ AddTriple([subject |-> <<"X">>, predicate |-> <<"p">>,
                  object |-> <<"X">>, subject_type |-> "t1",
                  object_type |-> "t2"], "")
    \/ DeleteEntity("y")
    \/ \E o \in Ids : DeleteRelation("x", o)
    \/ AccessRaise
    \/ RestartGraph
    \/ Tick

\* The mutators on a store that starts without a snapshot.
RelNext ==
    \/ AddEntity("x", "X", "t1", "k")
    \/ \E s \in RelIds, o \in RelIds, a \in RelArgs :
          AddRelation(s, a.predicate, o, a.weight, a.source)
    \/ \E triple \in Triples : AddTriple(triple, "")
    \/ \E i \in QueryIds : DeleteEntity(i)
    \/ \E s \in QueryIds, o \in QueryIds : DeleteRelation(s, o)
    \/ RestartGraph

(***************************************************************************)
(* Several processes, each with its own GraphStore, on one snapshot file.  *)
(* A mutator is a sequence of phases; in each phase the process changes    *)
(* its own graph and then writes it through _save, under the knowledge     *)
(* lock.  delete_entity enters the lock before it changes the graph.       *)
(***************************************************************************)

IdleStore == [graph |-> NotLoaded, pc |-> "idle", op |-> "none", args |-> <<"x", "x">>, todo |-> <<>>, before |-> NotLoaded, ret |-> "none"]

SharedInit ==
    /\ stores = [p \in Procs |-> IdleStore]
    /\ done = [entities |-> {}, relations |-> {}, failed |-> FALSE]

\* self.graph of process p: its _graph, loaded from the snapshot by the
\* first access and never again.
GraphOf(p) ==
    IF stores[p].graph.loaded THEN stores[p].graph
    ELSE [loaded |-> TRUE, nodes |-> Load(snapshot).nodes,
          edges |-> Load(snapshot).edges]

\* The phases of a mutator on the entities a and b: add_relation adds each
\* endpoint that is missing through add_entity, which saves, and then adds
\* the edge and saves.
Phases(o, a, b) ==
    CASE o = "add_entity"    -> << <<"entity", a, a>> >>
      [] o = "add_relation"  -> << <<"ensure", a, a>>, <<"ensure", b, b>>,
                                   <<"edge", a, b>> >>
      [] o = "delete_entity" -> << <<"delete", a, a>> >>

\* A process calls mutator o.  The first statement reads self.graph;
\* delete_entity returns false when the entity is not there.
BeginMutator(p, o, a, b) ==
    /\ stores[p].pc = "idle"
    /\ LET g == GraphOf(p)
       IN  stores' = [stores EXCEPT ![p] =
              IF o = "delete_entity" /\ a \notin DOMAIN g.nodes
              THEN [IdleStore EXCEPT !.graph = g, !.op = o, !.args = <<a, b>>,
                                     !.before = g, !.ret = "False"]
              ELSE [graph |-> g,
                    pc |-> IF o = "delete_entity" THEN "acquire" ELSE "mutate",
                    op |-> o, args |-> <<a, b>>, todo |-> Phases(o, a, b),
                    before |-> g, ret |-> "none"]]
    /\ UNCHANGED <<osLock, lockObj, snapshot, done>>
    /\ UNCHANGED notSharedVars

\* The in-memory change of a phase of add_entity or add_relation, made
\* before _save is called; an endpoint that is there needs no phase.
MutateGraph(p) ==
    /\ stores[p].pc = "mutate"
    /\ LET ph == Head(stores[p].todo)
           g  == stores[p].graph
       IN  stores' = [stores EXCEPT ![p] =
              CASE ph[1] = "entity" ->
                      [@ EXCEPT !.graph = WithEntity(g, ph[2], ph[2], "t1",
                                                     "None", clock),
                                !.pc = "acquire"]
                [] ph[1] = "ensure" /\ ph[2] \in DOMAIN g.nodes ->
                      [@ EXCEPT !.todo = Tail(@)]
                [] ph[1] = "ensure" /\ ph[2] \notin DOMAIN g.nodes ->
                      [@ EXCEPT !.graph = WithEntity(g, ph[2], ph[2],
                                                     "unknown", "None", clock),
                                !.pc = "acquire"]
                [] ph[1] = "edge" ->
                      [@ EXCEPT !.graph = WithRelation(g, ph[2], <<"p">>,
                                                       ph[3], 1, "", clock),
                                !.pc = "acquire"]]
    /\ UNCHANGED <<osLock, lockObj, snapshot, done>>
    /\ UNCHANGED notSharedVars

\* with LockManager.knowledge_lock(): the lock file is free and is taken.
SaveAcquire(p) ==
    /\ stores[p].pc = "acquire"
    /\ CanLock(p, "knowledge")
    /\ osLock' = [osLock EXCEPT !["knowledge"] = p]
    /\ lockObj' = [lockObj EXCEPT ![p]["knowledge"] = @ + 1]
    /\ stores' = [stores EXCEPT ![p].pc = "write"]
    /\ UNCHANGED <<snapshot, done>>
    /\ UNCHANGED notSharedVars

\* The lock file stayed with another process for the whole timeout:
\* Timeout leaves the mutator.
SaveTimeout(p) ==
    /\ stores[p].pc = "acquire"
    /\ ~CanLock(p, "knowledge")
    /\ stores' = [stores EXCEPT ![p].pc = "idle", ![p].todo = <<>>,
                                ![p].ret = "Timeout"]
    /\ done' = [done EXCEPT !.failed = TRUE]
    /\ UNCHANGED <<osLock, lockObj, snapshot>>
    /\ UNCHANGED notSharedVars

\* What the mutators that returned true have added and not deleted.
Done(d, o, a, b) ==
    CASE o = "add_entity"    -> [d EXCEPT !.entities = @ \cup {a}]
      [] o = "add_relation"  -> [d EXCEPT !.entities = @ \cup {a, b},
                                          !.relations = @ \cup {<<a, b>>}]
      [] o = "delete_entity" ->
            [d EXCEPT !.entities = @ \ {a},
                      !.relations = {e \in @ : e[1] # a /\ e[2] # a}]

\* Under the lock: delete_entity removes the node; _save writes the whole
\* graph of the process over the snapshot; the lock is released, and the
\* mutator goes on with its next phase or returns true.
SaveWrite(p) ==
    /\ stores[p].pc = "write"
    /\ LET ph  == Head(stores[p].todo)
           g   == IF ph[1] = "delete"
                  THEN [loaded |-> TRUE,
                        nodes |-> WithoutNode(stores[p].graph, ph[2]).nodes,
                        edges |-> WithoutNode(stores[p].graph, ph[2]).edges]
                  ELSE stores[p].graph
           end == Len(stores[p].todo) = 1
       IN  /\ snapshot' = Save(g)
           /\ stores' = [stores EXCEPT ![p].graph = g,
                                       ![p].todo = Tail(@),
                                       ![p].pc = IF end THEN "idle" ELSE "mutate",
                                       ![p].ret = IF end THEN "True" ELSE "none"]
           /\ done' = IF end
                      THEN Done(done, stores[p].op, stores[p].args[1],
                                stores[p].args[2])
                      ELSE done
    /\ osLock' = [osLock EXCEPT !["knowledge"] = NoProc]
    /\ lockObj' = [lockObj EXCEPT ![p]["knowledge"] = @ - 1]
    /\ UNCHANGED notSharedVars

SharedNext ==
    \E p \in Procs :
        \/ BeginMutator(p, "add_entity", "x", "x")
        \/ BeginMutator(p, "add_relation", "x", "y")
        \/ BeginMutator(p, "delete_entity", "x", "x")
        \/ MutateGraph(p)
        \/ SaveAcquire(p)
        \/ SaveTimeout(p)
        \/ SaveWrite(p)

(***************************************************************************)
(* append_daily_log (tools/memory.py) and append_to_file (storage.py),     *)
(* called by several processes on the same day.  A block of the log file   *)
(* is <<"header", e>> or <<"entry", e>> for the call that logs e; a fact   *)
(* of items.json is [id, status, supersededBy].                            *)
(***************************************************************************)

\* the contents that the calls log, each once
Entries == {"e1", "e2"}

\* the ids of the facts that the calls add, each once (uuid4)
FactIds == {"f1", "f2", "f3"}

\* the supersedes_id of a call: none, the id of a fact, an id of no fact
SupersedesIds == {"", "f1", "f9"}

NoFact == "nofact"

IdleTool == [pc |-> "idle", op |-> "none", id |-> "", sup |-> "", todo |-> <<>>, items |-> <<>>]

ToolInit ==
    /\ logFile = <<>>
    /\ itemsFile = <<>>
    /\ tool = [p \in Procs |-> IdleTool]
    /\ returned = {}

\* The content or fact id i has been given to a call already.
Used(i) ==
    \/ \E r \in returned : r[1] = i
    \/ \E p \in Procs : tool[p].pc # "idle" /\ tool[p].id = i

\* append_daily_log(content=e) is called.
CallLog(p, e) ==
    /\ tool[p].pc = "idle"
    /\ ~Used(e)
    /\ tool' = [tool EXCEPT ![p] = [IdleTool EXCEPT !.pc = "check",
                                                    !.op = "log", !.id = e]]
    /\ UNCHANGED <<osLock, lockObj, logFile, itemsFile, returned>>
    /\ UNCHANGED notToolVars

\* if not log_path.exists() or log_path.stat().st_size == 0: the header
\* is to be appended before the entry.  No lock is held.
CheckHeader(p) ==
    /\ tool[p].pc = "check"
    /\ tool' = [tool EXCEPT ![p].pc = "acquire",
                            ![p].todo = IF logFile = <<>>
                                        THEN <<"header", "entry">>
                                        ELSE <<"entry">>]
    /\ UNCHANGED <<osLock, lockObj, logFile, itemsFile, returned>>
    /\ UNCHANGED notToolVars

\* append_daily_log(atomic_fact={"id": f, "supersedes_id": sup}) of the
\* domain knowledge is called; sup is "" when the fact supersedes none.
CallFact(p, f, sup) ==
    /\ tool[p].pc = "idle"
    /\ ~Used(f)
    /\ tool' = [tool EXCEPT ![p] = [IdleTool EXCEPT !.pc = "acquire",
                                                    !.op = "fact", !.id = f,
                                                    !.sup = sup]]
    /\ UNCHANGED <<osLock, lockObj, logFile, itemsFile, returned>>
    /\ UNCHANGED notToolVars

\* The lock that the guarded section of the call is under.
ToolLock(p) == IF tool[p].op = "log" THEN "daily_log" ELSE "knowledge"

\* The guarded section is entered without the lock.
ToolAcquireUnlocked(p) ==
    /\ tool[p].pc = "acquire"
    /\ tool' = [tool EXCEPT ![p].pc = IF tool[p].op = "log" THEN "write"
                                      ELSE "read"]
    /\ lockObj' = [lockObj EXCEPT ![p][ToolLock(p)] = @ + 1]
    /\ UNCHANGED <<osLock, logFile, itemsFile, returned>>
    /\ UNCHANGED notToolVars

\* with LockManager.daily_log_lock() / with LockManager.knowledge_lock()
ToolAcquire(p) ==
    /\ tool[p].pc = "acquire"
    /\ CanLock(p, ToolLock(p))
    /\ osLock' = [osLock EXCEPT ![ToolLock(p)] = p]
    /\ lockObj' = [lockObj EXCEPT ![p][ToolLock(p)] = @ + 1]
    /\ tool' = [tool EXCEPT ![p].pc = IF tool[p].op = "log" THEN "write"
                                      ELSE "read"]
    /\ UNCHANGED <<logFile, itemsFile, returned>>
    /\ UNCHANGED notToolVars

\* The lock stayed with another process for the whole timeout: Timeout
\* leaves append_daily_log.
ToolTimeout(p) ==
    /\ tool[p].pc = "acquire"
    /\ ~CanLock(p, ToolLock(p))
    /\ tool' = [tool EXCEPT ![p] = IdleTool]
    /\ returned' = returned \cup {<<tool[p].id, "Timeout">>}
    /\ UNCHANGED <<osLock, lockObj, logFile, itemsFile>>
    /\ UNCHANGED notToolVars

\* Leaving the guard: the lock file is unlocked.
ToolRelease(p) ==
    /\ osLock' = [osLock EXCEPT ![ToolLock(p)] = NoProc]
    /\ lockObj' = [lockObj EXCEPT ![p][ToolLock(p)] = @ - 1]

\* _do_write under the lock: the block is appended (after a blank line
\* when the file is not empty); then the entry follows the header in a
\* second append_to_file, or the call returns.
DoWrite(p) ==
    /\ tool[p].pc = "write"
    /\ logFile' = Append(logFile, <<Head(tool[p].todo), tool[p].id>>)
    /\ ToolRelease(p)
    /\ IF Len(tool[p].todo) = 1
       THEN /\ tool' = [tool EXCEPT ![p] = IdleTool]
            /\ returned' = returned \cup {<<tool[p].id, "Appended">>}
       ELSE /\ tool' = [tool EXCEPT ![p].pc = "acquire", ![p].todo = Tail(@)]
            /\ returned' = returned
    /\ UNCHANGED itemsFile
    /\ UNCHANGED notToolVars

\* items = json.loads(target_file.read_text()), under the lock
FactRead(p) ==
    /\ tool[p].pc = "read"
    /\ tool' = [tool EXCEPT ![p].pc = "update", ![p].items = itemsFile]
    /\ UNCHANGED <<osLock, lockObj, logFile, itemsFile, returned>>
    /\ UNCHANGED notToolVars

\* The items with every active fact of id sup marked as superseded by f.
Supersede(items, sup, f) ==
    [i \in DOMAIN items |->
        IF items[i].id = sup /\ items[i].status = "active"
        THEN [items[i] EXCEPT !.status = "superseded", !.supersededBy = f]
        ELSE items[i]]

\* updated_count == 0
NoneSuperseded(items, sup) ==
    \A i \in DOMAIN items : ~(items[i].id = sup /\ items[i].status = "active")

\* The rest of the guarded section: without an active fact to supersede
\* the call returns the warning; else the fact is appended to the items
\* read and the list is written.
FactWrite(p) ==
    /\ tool[p].pc = "update"
    /\ LET t == tool[p]
           warn == t.sup # "" /\ NoneSuperseded(t.items, t.sup)
           items == IF t.sup # "" THEN Supersede(t.items, t.sup, t.id)
                    ELSE t.items
       IN  /\ itemsFile' = IF warn THEN itemsFile
                           ELSE Append(items, [id |-> t.id, status |-> "active",
                                               supersededBy |-> NoFact])
           /\ returned' = returned \cup
                 {<<t.id, IF warn THEN "Warning" ELSE "Added">>}
    /\ ToolRelease(p)
    /\ tool' = [tool EXCEPT ![p] = IdleTool]
    /\ UNCHANGED logFile
    /\ UNCHANGED notToolVars

ToolNext ==
    \E p \in Procs :
        \/ \E e \in Entries : CallLog(p, e)
        \/ CheckHeader(p)
        \/ \E f \in FactIds, sup \in SupersedesIds : CallFact(p, f, sup)
        \/ ToolAcquire(p)
        \/ ToolTimeout(p)
        \/ DoWrite(p)
        \/ FactRead(p)
        \/ FactWrite(p)

(***************************************************************************)
(* Queries on the graphs that sequences of add_relation calls build.       *)
(***************************************************************************)

\* the largest max_depth of a multi_hop_query call
MaxDepth == 3

\* The graph after add_relation(s, p, o) for each <<s, p, o>> of rels, on
\* a store that was empty.
RECURSIVE BuiltSeq(_)
BuiltSeq(rels) ==
    IF rels = <<>> THEN [nodes |-> EmptyNodes, edges |-> EmptyEdges]
    ELSE WithRelation(BuiltSeq(Tail(rels)), Head(rels)[1], Head(rels)[2],
                      Head(rels)[3], 1, "", 0)

Built(rels) == BuiltSeq(SetToSeq(rels))

\* Relations among a, b, c, d: the chain a -> b -> c -> d with P1, P2, P3,
\* a second way from a and from b, and a relation from c to itself.
HopRelations ==
    {<<"a", <<"p", "1">>, "b">>, <<"b", <<"p", "2">>, "c">>,
     <<"c", <<"p", "3">>, "d">>, <<"a", <<"p", "1">>, "c">>,
     <<"c", <<"p", "2">>, "c">>, <<"b", <<"p", "2">>, "d">>}

\* Relations among x, a_b and the entity whose id is the empty string.
FilterRelations ==
    {<<"x", <<"p">>, "a_b">>, <<"a_b", <<"Q">>, "x">>,
     <<"", <<"p">>, "a_b">>, <<"x", <<"Q">>, "">>, <<"", <<"p">>, "">>}

QueryInit ==
    /\ \E rels \in SUBSET HopRelations \cup SUBSET FilterRelations :
          /\ graph = [loaded |-> TRUE, nodes |-> Built(rels).nodes,
                      edges |-> Built(rels).edges]
          /\ snapshot = Save(Built(rels))
    /\ gev = NoGev

\* the optional arguments of the queries
OptIds == {None} \cup {Some(i) : i \in QueryIds}

OptPreds == {None, Some(<<>>), Some(<<"p">>), Some(<<"Q">>)}

HopPreds ==
    {<<>>, <<<<"p", "1">>>>, <<<<"p", "1">>, <<"p", "2">>>>,
     <<<<"P", "1">>, <<"p", "2">>, <<"P", "3">>>>,
     <<<<"p", "1">>, <<"p", "2">>, <<"p", "2">>, <<"p", "3">>>>}

QueryNext ==
    \/ \E s \in OptIds, p \in OptPreds, o \in OptIds : QueryRelations(s, p, o)
    \/ \E i \in {"x", "", "a"}, p \in {None, Some(<<"p">>)},
          d \in {"out", "in", "both"} : QueryEntityNeighbors(i, p, d)
    \/ \E i \in {"a", "c"}, ps \in HopPreds, d \in 0..MaxDepth :
          MultiHopQuery(i, ps, d)
    \/ \E i \in {"x", "a"} : GetEntity(i)
    \/ \E i \in {"x", "a"} : DeleteEntity(i)
    \/ \E e \in {<<"x", "a_b">>, <<"a", "b">>} : DeleteRelation(e[1], e[2])

(***************************************************************************)
(* Hybrid Retrieval Store (vector_store.py): one VectorStore on the        *)
(* database .vector/vectors.db.  conn is the committed content of the      *)
(* database, which is what every connection reads:                         *)
(*   documents  the rows of table documents, doc_id -> [rowid, content]    *)
(*   fts        the FTS5 index documents_fts, a set of <<rowid, term>>     *)
(*   vec        the rows of table vec_index, doc_id -> embedding           *)
(* A content is a sequence of terms (the tokens of the text).              *)
(***************************************************************************)

\* self.dimension
Dimension == 2

DocIds == {"d1", "d2"}

Terms == {"a", "b"}

Contents == {<<"a">>, <<"b", "a", "a">>}

\* the embeddings that callers of add pass: two of the configured dimension
\* and one that is too short
Embeddings == {<<0, 0>>, <<1, 1>>, <<0>>}

\* the embeddings that callers of search pass
QueryEmbeddings == {<<0, 0>>, <<1, 0>>, <<1, 1>>, <<0>>}

\* the limits that callers of fulltext_search pass
Limits == {1, 2}

\* Rows are inserted while the rowid is at most MaxRowid.
MaxRowid == 3

\* The metadata argument of add is None, Some({}) for an empty dict or
\* Some({<<"k", "v">>}) for a dict with one key: a dict is the set of its
\* <<key, value>> pairs.

\* json.dumps(metadata or {}, ensure_ascii=False): the text of the column.
Dumps(metadata) ==
    IF metadata = None \/ metadata[1] = {} THEN "{}" ELSE "{\"k\": \"v\"}"

\* json.loads(row[1]) if row[1] else {}
Loads(text) ==
    CASE text = ""                 -> {}
      [] text = "{}"               -> {}
      [] text = "{\"k\": \"v\"}" -> {<<"k", "v">>}

EmptyDb == [documents |-> [i \in {} |-> [rowid |-> 0, content |-> <<>>, metadata |-> ""]],
            fts |-> {},
            vec |-> [i \in {} |-> <<>>]]

NoVev == [op |-> "none"]

\* a VectorClient without configuration: config.embedding_api_key and
\* config.rerank_api_key are not set
NoClient == [embedding_available |-> FALSE, rerank_available |-> FALSE]

\* The ValueError, and the error that a statement of the database raises.
NoError == "none"

Rowids(d) == {d.documents[i].rowid : i \in DOMAIN d.documents}

\* The rowid that an INSERT gives to the new row: one more than the largest
\* rowid in the table (that of a row which REPLACE deletes included).
NextRowid(d) ==
    IF Rowids(d) = {} THEN 1
    ELSE 1 + CHOOSE r \in Rowids(d) : \A q \in Rowids(d) : q <= r

\* trigger documents_ai: the terms of the new row enter the index
FtsInsert(fts, rowid, content) ==
    fts \cup {<<rowid, content[k]>> : k \in DOMAIN content}

\* trigger documents_ad: the 'delete' command takes the terms of the old
\* row out of the index
FtsDelete(fts, rowid, content) ==
    fts \ {<<rowid, content[k]>> : k \in DOMAIN content}

\* INSERT OR IGNORE INTO documents: a row with the same id stays as it is.
InsertOrIgnoreDocument(d, doc_id, content, metadata) ==
    IF doc_id \in DOMAIN d.documents THEN d
    ELSE [d EXCEPT
            !.documents =
                [i \in DOMAIN d.documents \cup {doc_id} |->
                    IF i = doc_id
                    THEN [rowid |-> NextRowid(d), content |-> content,
                          metadata |-> Dumps(metadata)]
                    ELSE d.documents[i]],
            !.fts = FtsInsert(d.fts, NextRowid(d), content)]

\* INSERT OR REPLACE INTO documents: a row with the same id is deleted by
\* the conflict resolution, for which no delete trigger fires
\* (recursive_triggers is off), and the new row is inserted, for which
\* documents_ai fires.
InsertOrReplaceDocument(d, doc_id, content, metadata) ==
    [d EXCEPT
       !.documents =
           [i \in DOMAIN d.documents \cup {doc_id} |->
               IF i = doc_id
               THEN [rowid |-> NextRowid(d), content |-> content,
                     metadata |-> Dumps(metadata)]
               ELSE d.documents[i]],
       !.fts = FtsInsert(d.fts, NextRowid(d), content)]

\* INSERT OR REPLACE INTO vec_index
InsertOrReplaceVector(d, doc_id, embedding) ==
    [d EXCEPT
       !.vec = [i \in DOMAIN d.vec \cup {doc_id} |->
                   IF i = doc_id THEN embedding ELSE d.vec[i]]]

\* DELETE FROM documents WHERE id = ?, with trigger documents_ad
DeleteDocument(d, doc_id) ==
    IF doc_id \notin DOMAIN d.documents THEN d
    ELSE [d EXCEPT
            !.documents = [i \in DOMAIN d.documents \ {doc_id} |->
                              d.documents[i]],
            !.fts = FtsDelete(d.fts, d.documents[doc_id].rowid,
                              d.documents[doc_id].content)]

\* DELETE FROM vec_index WHERE id = ?
DeleteVector(d, doc_id) ==
    [d EXCEPT !.vec = [i \in DOMAIN d.vec \ {doc_id} |-> d.vec[i]]]

\* The transaction commits although a statement failed: what it wrote so
\* far stays.
RollbackKeepsWrites(committed, written) == written

\* self.conn.rollback(): the database is as it was committed
Rollback(committed, written) == committed

\* Every embedding passes.
DimensionOkAlways(embedding) == TRUE

\* len(embedding) != self.dimension raises the ValueError
DimensionOk(embedding) == Len(embedding) = Dimension

\* count()
Count(d) == Cardinality(DOMAIN d.documents)

VectorInit ==
    /\ conn = EmptyDb
    /\ SQLITE_VEC_AVAILABLE \in BOOLEAN
    /\ client = NoClient
    /\ vev = NoVev

\* add(doc_id, content, embedding, metadata); fails says that the
\* insertion into vec_index raises, after the document row was written.
Add(doc_id, content, embedding, metadata, fails) ==
    /\ fails => (SQLITE_VEC_AVAILABLE /\ DimensionOk(embedding))
    /\ DimensionOk(embedding) => NextRowid(conn) <= MaxRowid
    /\ LET d1 == InsertOrReplaceDocument(conn, doc_id, content, metadata)
           d2 == IF SQLITE_VEC_AVAILABLE
                 THEN InsertOrReplaceVector(d1, doc_id, embedding)
                 ELSE d1
       IN  IF ~DimensionOk(embedding)
           THEN /\ conn' = conn
                /\ vev' = [op |-> "add", doc_id |-> doc_id,
                           content |-> content, embedding |-> embedding,
                           metadata |-> metadata,
                           raised |-> "ValueError", ret |-> FALSE,
                           locked |-> FALSE]
           ELSE IF fails
           THEN /\ conn' = Rollback(conn, d1)
                /\ vev' = [op |-> "add", doc_id |-> doc_id,
                           content |-> content, embedding |-> embedding,
                           metadata |-> metadata,
                           raised |-> "Exception", ret |-> FALSE,
                           locked |-> TRUE]
           ELSE /\ conn' = d2
                /\ vev' = [op |-> "add", doc_id |-> doc_id,
                           content |-> content, embedding |-> embedding,
                           metadata |-> metadata,
                           raised |-> NoError, ret |-> TRUE,
                           locked |-> TRUE]
    /\ UNCHANGED <<SQLITE_VEC_AVAILABLE, client>>
    /\ UNCHANGED notVectorVars

\* delete(doc_id); fails says that the deletion from vec_index raises.
Delete(doc_id, fails) ==
    /\ fails => SQLITE_VEC_AVAILABLE
    /\ LET d1 == DeleteDocument(conn, doc_id)
           d2 == IF SQLITE_VEC_AVAILABLE THEN DeleteVector(d1, doc_id)
                 ELSE d1
       IN  IF fails
           THEN /\ conn' = Rollback(conn, d1)
                /\ vev' = [op |-> "delete", doc_id |-> doc_id,
                           raised |-> NoError, ret |-> FALSE,
                           locked |-> TRUE]
           ELSE /\ conn' = d2
                /\ vev' = [op |-> "delete", doc_id |-> doc_id,
                           raised |-> NoError, ret |-> TRUE,
                           locked |-> TRUE]
    /\ UNCHANGED <<SQLITE_VEC_AVAILABLE, client>>
    /\ UNCHANGED notVectorVars

\* get(doc_id): the content and the parsed metadata of the row, or None.
GetOf(d, doc_id) ==
    IF doc_id \in DOMAIN d.documents
    THEN Some(<<d.documents[doc_id].content,
                Loads(d.documents[doc_id].metadata)>>)
    ELSE None

\* A caller runs get(doc_id).
Get(doc_id) ==
    /\ vev' = [op |-> "get", doc_id |-> doc_id, ret |-> GetOf(conn, doc_id)]
    /\ UNCHANGED <<conn, SQLITE_VEC_AVAILABLE, client>>
    /\ UNCHANGED notVectorVars

\* A caller runs count(): SELECT COUNT(*) FROM documents.
CountDocuments ==
    /\ vev' = [op |-> "count", ret |-> Count(conn)]
    /\ UNCHANGED <<conn, SQLITE_VEC_AVAILABLE, client>>
    /\ UNCHANGED notVectorVars

\* the contents and metadata that callers of add pass together
ContentsWithMetadata == {<< <<"a">>, None >>, << <<"a">>, Some({}) >>, << <<"b", "a", "a">>, Some({<<"k", "v">>}) >>}

\* Sequences of add, delete, get and count calls, with metadata.
StoreNext ==
    \/ \E i \in DocIds, cm \in ContentsWithMetadata, e \in {<<0, 0>>, <<0>>}, f \in BOOLEAN :
          Add(i, cm[1], e, cm[2], f)
    \/ \E i \in DocIds, f \in BOOLEAN : Delete(i, f)
    \/ \E i \in DocIds : Get(i)
    \/ CountDocuments

(***************************************************************************)
(* Searches.  A result list is ordered by a key; SortedBy lists a set in   *)
(* ascending order of an integer key that differs for every element.       *)
(***************************************************************************)

RECURSIVE SortedBy(_, _)
SortedBy(S, key) ==
    IF S = {} THEN <<>>
    ELSE LET x == CHOOSE x \in S : \A y \in S : key[x] <= key[y]
         IN  <<x>> \o SortedBy(S \ {x}, key)

\* The first n elements of a sequence (LIMIT n).
Limit(s, n) == SubSeq(s, 1, IF n < Len(s) THEN n ELSE Len(s))

\* The number of times the term occurs in the content.
RECURSIVE Occurrences(_, _)
Occurrences(content, term) ==
    IF content = <<>> THEN 0
    ELSE (IF Head(content) = term THEN 1 ELSE 0)
           + Occurrences(Tail(content), term)

\* bm25(documents_fts): smaller is more relevant; a content with more
\* occurrences of the term ranks before one with fewer.
Bm25(content, query) == 0 - Occurrences(content, query)

\* The rowids that the index holds for the term (documents_fts MATCH ?).
Hits(d, query) == {r \in 1..MaxRowid : <<r, query>> \in d.fts}

\* The hits whose row is no longer in the content table documents.
MissingRows(d, query) == Hits(d, query) \ Rowids(d)

\* The hits whose row in documents does not hold the term: the rowid was
\* given to another document after its former row was replaced.
ForeignRows(d, query) ==
    {r \in Hits(d, query) \cap Rowids(d) :
        \A i \in DOMAIN d.documents :
            d.documents[i].rowid = r =>
                Occurrences(d.documents[i].content, query) = 0}

\* The documents that the join of the hits with documents gives.
Matched(d, query) ==
    {i \in DOMAIN d.documents : d.documents[i].rowid \in Hits(d, query)}

\* ORDER BY rank LIMIT ?; documents of equal rank in the order of rowids
FulltextRows(d, query, limit) ==
    LET key == [i \in Matched(d, query) |->
                   Bm25(d.documents[i].content, query) * (MaxRowid + 1)
                     + d.documents[i].rowid]
        ids == Limit(SortedBy(Matched(d, query), key), limit)
    IN  [k \in DOMAIN ids |->
            [id |-> ids[k], content |-> d.documents[ids[k]].content,
             rank |-> Bm25(d.documents[ids[k]].content, query)]]

\* fulltext_search(query, limit).  The read of a hit whose row is missing
\* fails ("database disk image is malformed"); the read of a hit whose row
\* belongs to another document fails or gives that document.
FulltextSearch(query, limit, fails) ==
    /\ fails => (MissingRows(conn, query) \cup ForeignRows(conn, query)) # {}
    /\ ~fails => MissingRows(conn, query) = {}
    /\ vev' = IF fails
              THEN [op |-> "fulltext_search", query |-> query,
                    limit |-> limit, raised |-> "DatabaseError",
                    ret |-> <<>>]
              ELSE [op |-> "fulltext_search", query |-> query,
                    limit |-> limit, raised |-> NoError,
                    ret |-> FulltextRows(conn, query, limit)]
    /\ UNCHANGED <<conn, SQLITE_VEC_AVAILABLE, client>>
    /\ UNCHANGED notVectorVars

\* The distance of vec_index between two vectors of the same dimension (the
\* square of the L2 distance, which orders the vectors as the distance
\* does).
RECURSIVE Distance(_, _)
Distance(v, w) ==
    IF v = <<>> THEN 0
    ELSE (Head(v) - Head(w)) * (Head(v) - Head(w))
           + Distance(Tail(v), Tail(w))

\* score = 1.0 / (1.0 + distance), as <<numerator, denominator>>
Score(distance) == <<1, 1 + distance>>

\* s is at most t, for two scores with positive denominators.
ScoreLeq(s, t) == s[1] * t[2] <= t[1] * s[2]

\* The place of x in the sequence order.
Place(order, x) == CHOOSE k \in DOMAIN order : order[k] = x

\* Descending instead of ascending distance.
KnnFarthest(d, query_embedding, top_k, order) ==
    LET key == [i \in DOMAIN d.vec |->
                   (0 - Distance(d.vec[i], query_embedding)) * (Len(order) + 1)
                     + Place(order, i)]
    IN  Limit(SortedBy(DOMAIN d.vec, key), top_k)

\* WHERE v.embedding MATCH ? ORDER BY v.distance LIMIT ?: the top_k rows of
\* vec_index nearest to the query; rows at the same distance come in the
\* order in which the table gives them (order).
Knn(d, query_embedding, top_k, order) ==
    LET key == [i \in DOMAIN d.vec |->
                   Distance(d.vec[i], query_embedding) * (Len(order) + 1)
                     + Place(order, i)]
    IN  Limit(SortedBy(DOMAIN d.vec, key), top_k)

\* The rows of the query of search: the nearest rows joined with documents.
SearchRows(d, query_embedding, top_k, order) ==
    LET ids == SelectSeq(Knn(d, query_embedding, top_k, order),
                         LAMBDA i : i \in DOMAIN d.documents)
    IN  [k \in DOMAIN ids |->
            [id |-> ids[k], content |-> d.documents[ids[k]].content,
             distance |-> Distance(d.vec[ids[k]], query_embedding),
             score |-> Score(Distance(d.vec[ids[k]], query_embedding))]]

\* The dimension of the query is checked before the backend.
SearchOfChecksDimensionFirst(d, available, query_embedding, top_k, order) ==
    IF ~DimensionOk(query_embedding)
    THEN [raised |-> "ValueError", ret |-> <<>>]
    ELSE IF ~available THEN [raised |-> NoError, ret |-> <<>>]
    ELSE [raised |-> NoError,
          ret |-> SearchRows(d, query_embedding, top_k, order)]

\* search(query_embedding, top_k) as a value: what it raises and returns
SearchOf(d, available, query_embedding, top_k, order) ==
    IF ~available THEN [raised |-> NoError, ret |-> <<>>]
    ELSE IF ~DimensionOk(query_embedding)
    THEN [raised |-> "ValueError", ret |-> <<>>]
    ELSE [raised |-> NoError,
          ret |-> SearchRows(d, query_embedding, top_k, order)]

\* search(query_embedding, top_k)
Search(query_embedding, top_k, order) ==
    /\ LET r == SearchOf(conn, SQLITE_VEC_AVAILABLE, query_embedding, top_k,
                         order)
       IN  vev' = [op |-> "search", query_embedding |-> query_embedding,
                   top_k |-> top_k, raised |-> r.raised, ret |-> r.ret]
    /\ UNCHANGED <<conn, SQLITE_VEC_AVAILABLE, client>>
    /\ UNCHANGED notVectorVars

(***************************************************************************)
(* Hybrid composition (tools/semantic.py).                                 *)
(***************************************************************************)

\* client.rerank(query, documents, top_n): relevance[k] is the relevance
\* that the re-ranker gives to documents[k].  The 'results' of the response
\* of the rerank API are the top_n most relevant documents, the most
\* relevant first, each with its index (from 0) in documents.
Rerank(relevance, top_n) ==
    LET n == Len(relevance)
        key == [k \in 1..n |-> (0 - relevance[k]) * (n + 1) + k]
        idx == Limit(SortedBy(1..n, key), top_n)
    IN  [j \in DOMAIN idx |->
            [index |-> idx[j] - 1,
             relevance_score |-> <<relevance[idx[j]], 1>>]]

\* The j-th result is the j-th candidate of the pool.
RerankedInPlace(results, items) ==
    [j \in DOMAIN items |->
        [results[j] EXCEPT !.score = items[j].relevance_score]]

\* the loop over rerank_result.results: original = results[idx]
Reranked(results, items) ==
    [j \in DOMAIN items |->
        [results[items[j].index + 1] EXCEPT
            !.score = items[j].relevance_score]]

\* if use_rerank and client.rerank_available and len(results) > rerank_top_n
ShouldRerank(use_rerank, rerank_available, results, rerank_top_n) ==
    use_rerank /\ rerank_available /\ Len(results) > rerank_top_n

\* semantic_search(query, top_k, use_rerank, rerank_top_n), where
\* query_embedding is what client.embed_single(query) returns and relevance
\* is what the re-ranker makes of the pool (empty when it is not asked).
SemanticSearch(query_embedding, top_k, use_rerank, rerank_top_n, order, relevance) ==
    /\ relevance # <<>> =>
          /\ use_rerank /\ client.rerank_available
          /\ client.embedding_available /\ SQLITE_VEC_AVAILABLE
          /\ Len(relevance) > rerank_top_n /\ Len(relevance) <= top_k
    /\ LET r == SearchOf(conn, SQLITE_VEC_AVAILABLE, query_embedding, top_k,
                         order)
           rerank == ShouldRerank(use_rerank, client.rerank_available, r.ret,
                                  rerank_top_n)
           kind == IF ~client.embedding_available
                   THEN "embedding_unavailable"
                   ELSE IF ~SQLITE_VEC_AVAILABLE THEN "store_unavailable"
                   ELSE IF r.raised # NoError THEN "failed"
                   ELSE IF r.ret = <<>> THEN "not_found"
                   ELSE "results"
       IN  /\ Len(relevance) = IF kind = "results" /\ rerank
                               THEN Len(r.ret) ELSE 0
           /\ vev' = [op |-> "semantic_search",
                      query_embedding |-> query_embedding,
                      top_k |-> top_k, use_rerank |-> use_rerank,
                      rerank_top_n |-> rerank_top_n,
                      relevance |-> relevance,
                      kind |-> kind,
                      pool |-> IF kind = "results" THEN r.ret ELSE <<>>,
                      reranked |-> kind = "results" /\ rerank,
                      ret |-> IF kind # "results" THEN <<>>
                              ELSE IF rerank
                              THEN Reranked(r.ret,
                                            Rerank(relevance, rerank_top_n))
                              ELSE r.ret]
    /\ UNCHANGED <<conn, SQLITE_VEC_AVAILABLE, client>>
    /\ UNCHANGED notVectorVars

VectorNext ==
    \/ \E i \in DocIds, c \in Contents, e \in Embeddings, f \in BOOLEAN :
          Add(i, c, e, None, f)
    \/ \E i \in DocIds, f \in BOOLEAN : Delete(i, f)
    \/ \E q \in Terms, n \in Limits, f \in BOOLEAN :
          FulltextSearch(q, n, f)

(***************************************************************************)
(* Searches on the stores that sequences of add calls build.               *)
(***************************************************************************)

\* The database after add(doc_id, content, embedding) for each
\* <<doc_id, content, embedding>> of adds, the last first, on an empty one.
RECURSIVE BuiltDb(_, _)
BuiltDb(adds, available) ==
    IF adds = <<>> THEN EmptyDb
    ELSE LET d  == BuiltDb(Tail(adds), available)
             d1 == InsertOrReplaceDocument(d, Head(adds)[1], Head(adds)[2], None)
         IN  IF available
             THEN InsertOrReplaceVector(d1, Head(adds)[1], Head(adds)[3])
             ELSE d1

SearchIds == <<"d1", "d2", "d3">>

\* the orders in which vec_index gives rows at the same distance
SearchOrders == {SearchIds, <<"d3", "d2", "d1">>}

StoredAdds ==
    {<<>>,
     << <<"d1", <<"a">>, <<1, 0>> >> >>,
     << <<"d3", <<"b">>, <<1, 1>> >>, <<"d2", <<"b", "a", "a">>, <<1, 0>> >>,
        <<"d1", <<"a">>, <<0, 0>> >> >>}

MaxTopK == 3

\* the relevances that a re-ranker gives to the documents of a pool
Relevances ==
    UNION {{r \in [1..n -> 1..n] : \A j, k \in 1..n : r[j] = r[k] => j = k} :
           n \in 0..MaxTopK}

SearchInit ==
    /\ SQLITE_VEC_AVAILABLE \in BOOLEAN
    /\ conn \in {BuiltDb(a, SQLITE_VEC_AVAILABLE) : a \in StoredAdds}
    /\ client \in [embedding_available : BOOLEAN, rerank_available : BOOLEAN]
    /\ vev = NoVev

SearchNext ==
    \/ \E e \in QueryEmbeddings, k \in 0..MaxTopK, o \in SearchOrders :
          Search(e, k, o)
    \/ \E e \in {<<0, 0>>, <<1, 0>>, <<0>>}, k \in 1..MaxTopK,
          u \in BOOLEAN, n \in 1..2, r \in Relevances :
          SemanticSearch(e, k, u, n, SearchIds, r)

(***************************************************************************)
(* The threads of one process that call LockManager.knowledge_lock(timeout) *)
(* (lock_manager.py).  A FileLock object is a number from 1; a thread runs  *)
(* the statements of _get_knowledge_lock and knowledge_lock one at a time.  *)
(* Whether the lock is free is the matter of SpecLock: here an acquisition  *)
(* is the wait that its timeout bounds.                                     *)
(***************************************************************************)

NumThreads == 2

Threads == 1..NumThreads

\* cls._knowledge_lock is None
NoLock == 0

\* timeout: float = 10, and FileLock(lock_path, timeout=10)
DefaultTimeout == 10

\* the timeouts that callers pass
Timeouts == {1, DefaultTimeout}

IdleThread == [pc |-> "idle", timeout |-> DefaultTimeout, lock |-> NoLock,
               waits |-> DefaultTimeout]

ThreadInit ==
    /\ cachedLock = NoLock
    /\ lockTimeout = [o \in {} |-> [t \in Threads |-> DefaultTimeout]]
    /\ threadLocal \in BOOLEAN
    /\ thread = [t \in Threads |-> IdleThread]

\* a thread calls knowledge_lock(timeout)
CallLock(t, timeout) ==
    /\ thread[t].pc = "idle"
    /\ thread' = [thread EXCEPT ![t] = [pc |-> "check", timeout |-> timeout,
                                        lock |-> NoLock,
                                        waits |-> DefaultTimeout]]
    /\ UNCHANGED <<cachedLock, lockTimeout, threadLocal>>
    /\ UNCHANGED notThreadVars

\* if cls._knowledge_lock is None
CheckLock(t) ==
    /\ thread[t].pc = "check"
    /\ thread' = [thread EXCEPT ![t].pc = IF cachedLock = NoLock
                                          THEN "create" ELSE "return"]
    /\ UNCHANGED <<cachedLock, lockTimeout, threadLocal>>
    /\ UNCHANGED notThreadVars

\* cls._knowledge_lock = FileLock(lock_path, timeout=10)
CreateLock(t) ==
    /\ thread[t].pc = "create"
    /\ LET new == Cardinality(DOMAIN lockTimeout) + 1
       IN  /\ lockTimeout' = [o \in DOMAIN lockTimeout \cup {new} |->
                                 IF o = new
                                 THEN [u \in Threads |-> DefaultTimeout]
                                 ELSE lockTimeout[o]]
           /\ cachedLock' = new
    /\ thread' = [thread EXCEPT ![t].pc = "return"]
    /\ UNCHANGED threadLocal
    /\ UNCHANGED notThreadVars

\* return cls._knowledge_lock
ReturnLock(t) ==
    /\ thread[t].pc = "return"
    /\ thread' = [thread EXCEPT ![t].pc = "set", ![t].lock = cachedLock]
    /\ UNCHANGED <<cachedLock, lockTimeout, threadLocal>>
    /\ UNCHANGED notThreadVars

\* lock.timeout = timeout
SetTimeout(t) ==
    /\ thread[t].pc = "set"
    /\ lockTimeout' =
           [lockTimeout EXCEPT ![thread[t].lock] =
               IF threadLocal
               THEN [@ EXCEPT ![t] = thread[t].timeout]
               ELSE [u \in Threads |-> thread[t].timeout]]
    /\ thread' = [thread EXCEPT ![t].pc = "acquire"]
    /\ UNCHANGED <<cachedLock, threadLocal>>
    /\ UNCHANGED notThreadVars

\* with lock: acquire() waits for at most the timeout of the lock object
AcquireLock(t) ==
    /\ thread[t].pc = "acquire"
    /\ thread' = [thread EXCEPT ![t].pc = "waited",
                                ![t].waits = lockTimeout[thread[t].lock][t]]
    /\ UNCHANGED <<cachedLock, lockTimeout, threadLocal>>
    /\ UNCHANGED notThreadVars

\* the guard is left, or Timeout was raised
LeaveLock(t) ==
    /\ thread[t].pc = "waited"
    /\ thread' = [thread EXCEPT ![t] = IdleThread]
    /\ UNCHANGED <<cachedLock, lockTimeout, threadLocal>>
    /\ UNCHANGED notThreadVars

ThreadNext ==
    \E t \in Threads :
        \/ \E timeout \in Timeouts : CallLock(t, timeout)
        \/ CheckLock(t)
        \/ CreateLock(t)
        \/ ReturnLock(t)
        \/ SetTimeout(t)
        \/ AcquireLock(t)
        \/ LeaveLock(t)

(***************************************************************************)
(* Claims about the Knowledge Store, checked under SpecGraph.              *)
(***************************************************************************)

\* C10: after add_entity(id, name, type, attributes) the graph holds the
\* entity id with the new name, type and attribute map, and the snapshot
\* holds exactly one record with that id; when the id existed before, its
\* creation timestamp is the original one and the entity count is
\* unchanged; when it is new, exactly one entity has been created.
C10_EntityUpsert ==
    gev.op = "add_entity" =>
        /\ graph.loaded
        /\ gev.id \in DOMAIN graph.nodes
        /\ graph.nodes[gev.id].name = gev.name
        /\ graph.nodes[gev.id].type = gev.type
        /\ graph.nodes[gev.id].attributes =
              (IF gev.attrs = "k" THEN "k" ELSE "empty")
        /\ Cardinality({r \in snapshot.nodes : r.id = gev.id}) = 1
        /\ gev.existed =>
              /\ graph.nodes[gev.id].created_at = gev.created
              /\ Cardinality(DOMAIN graph.nodes) = gev.count
        /\ ~gev.existed =>
              /\ graph.nodes[gev.id].created_at = gev.now
              /\ Cardinality(DOMAIN graph.nodes) = gev.count + 1

\* C10 witness: add_entity("x", "Y", "t2") on an entity x created earlier
\* under another name and type: still one x, created at the earlier time.
C10_Witness ==
    /\ gev.op = "add_entity" /\ gev.existed
    /\ gev.id = "x" /\ gev.name = "Y" /\ gev.type = "t2"
    /\ graph.nodes["x"].created_at < gev.now
    /\ "y" \in DOMAIN graph.nodes

\* The last operation was a mutator that returned true.
MutatorReturned ==
    \/ gev.op \in {"add_entity", "add_relation", "add_triple"}
    \/ gev.op \in {"delete_entity", "delete_relation"} /\ gev.ret

\* C19: after every mutator that returned, a new GraphStore that loads the
\* snapshot gets the graph that is in memory: the same entities with their
\* name, type, attributes and creation time, and the same relations with
\* their predicate, weight, provenance and creation time.
C19_WriteThrough ==
    MutatorReturned =>
        /\ graph.loaded
        /\ snapshot.kind = "graph"
        /\ ~Load(snapshot).raised
        /\ Load(snapshot).nodes = graph.nodes
        /\ Load(snapshot).edges = graph.edges

\* C19 witness: add_relation("x", "Q", "y", 2, "doc") at time 1 in a graph
\* whose entity x was created at time 0.
C19_Witness ==
    /\ gev.op = "add_relation"
    /\ "x" \in DOMAIN graph.nodes /\ graph.nodes["x"].created_at = 0
    /\ <<"x", "y">> \in DOMAIN graph.edges
    /\ graph.edges[<<"x", "y">>].created_at = 1
    /\ \E r \in snapshot.edges :
          /\ r.source = "x" /\ r.target = "y" /\ r.predicate = "Q"
          /\ r.weight = 2 /\ r.source_doc = "doc" /\ r.created_at = 1

\* C20 (as claimed): whenever the snapshot is corrupt or unparsable in any
\* way, the first access raises no error and yields an empty graph, with no
\* partially loaded node or edge.
C20_SelfHealsAsClaimed ==
    (graph.loaded
       /\ snapshot.kind \in {"corrupt", "nokey", "badshape", "partial"}) =>
        /\ gev.op # "raise"
        /\ graph.nodes = EmptyNodes
        /\ graph.edges = EmptyEdges

(***************************************************************************)
(* Claims about relations, checked under SpecRel.                          *)
(***************************************************************************)

\* A step of the operation named o: the operation ran and something of the
\* store or of what it returned changed.
OpStep(o) == gev'.op = o /\ <<graph, snapshot, gev>>' # <<graph, snapshot, gev>>

\* The upper-cased predicate that each predicate text stands for.
UpperCased(text) ==
    CASE text \in {<<"p">>, <<"P">>} -> "P"
      [] text \in {<<"q">>, <<"Q">>} -> "Q"
      [] text \in {<<"p", "1">>, <<"P", "1">>} -> "P1"
      [] text \in {<<"p", "2">>, <<"P", "2">>} -> "P2"
      [] text \in {<<"p", "3">>, <<"P", "3">>} -> "P3"
      [] text = <<>> -> ""

\* Both endpoints of every relation of graph g are entities of g.
EndpointsExist(g) ==
    \A e \in DOMAIN g.edges : e[1] \in DOMAIN g.nodes /\ e[2] \in DOMAIN g.nodes

\* Both endpoints of every edge record of the snapshot have a node record.
SnapshotEndpointsExist ==
    \A r \in snapshot.edges :
        /\ \E n \in snapshot.nodes : n.id = r.source
        /\ \E n \in snapshot.nodes : n.id = r.target

\* C11: after every mutator both endpoints of every stored relation exist
\* as entities, in the graph and in the snapshot; add_relation leaves an
\* endpoint that existed with its name, type, attributes and creation time
\* and creates a missing endpoint as an entity of type "unknown" named by
\* its id.
C11_Endpoints ==
    [][/\ EndpointsExist(graph')
       /\ SnapshotEndpointsExist'
       /\ OpStep("add_relation") =>
             \A i \in {gev'.subject_id, gev'.object_id} :
                 /\ i \in DOMAIN graph'.nodes
                 /\ i \in DOMAIN TheGraph.nodes =>
                       graph'.nodes[i] = TheGraph.nodes[i]
                 /\ i \notin DOMAIN TheGraph.nodes =>
                       /\ graph'.nodes[i].type = "unknown"
                       /\ graph'.nodes[i].name = i
                       /\ graph'.nodes[i].attributes = "empty"]_vars

\* C11 witness: add_relation created a_b as an entity of type "unknown";
\* x was then deleted with its relations, and the relation from a_b to
\* itself is the one that remains.
C11_Witness ==
    /\ gev.op = "delete_entity" /\ gev.id = "x" /\ gev.ret
    /\ "a_b" \in DOMAIN graph.nodes
    /\ graph.nodes["a_b"].type = "unknown"
    /\ graph.nodes["a_b"].name = "a_b"
    /\ <<"a_b", "a_b">> \in DOMAIN graph.edges
    /\ DOMAIN graph.edges = {<<"a_b", "a_b">>}

\* C12: the snapshot holds at most one relation per ordered (subject,
\* object) pair; add_relation on a pair gives its relation the new
\* upper-cased predicate, weight and provenance, changes the relation count
\* only when the pair had no relation, and leaves every other relation, the
\* one of the reverse pair included, as it was.
C12_SingleEdge ==
    [][/\ \A r1, r2 \in snapshot'.edges :
             (r1.source = r2.source /\ r1.target = r2.target) => r1 = r2
       /\ OpStep("add_relation") =>
             LET e == <<gev'.subject_id, gev'.object_id>>
             IN  /\ e \in DOMAIN graph'.edges
                 /\ graph'.edges[e].predicate = UpperCased(gev'.predicate)
                 /\ graph'.edges[e].weight = gev'.weight
                 /\ graph'.edges[e].source = gev'.source
                 /\ Cardinality(DOMAIN graph'.edges) =
                       Cardinality(DOMAIN TheGraph.edges)
                         + (IF e \in DOMAIN TheGraph.edges THEN 0 ELSE 1)
                 /\ Cardinality({r \in snapshot'.edges :
                                    <<r.source, r.target>> = e}) = 1
                 /\ \A f \in DOMAIN TheGraph.edges \ {e} :
                       /\ f \in DOMAIN graph'.edges
                       /\ graph'.edges[f] = TheGraph.edges[f]]_vars

\* C12 witness: add_relation("x", "Q", "a_b", 2, "doc") on a pair that had
\* a relation, with the relation of the reverse pair in place.
C12_Witness ==
    /\ gev.op = "add_relation" /\ gev.existed
    /\ gev.subject_id = "x" /\ gev.object_id = "a_b"
    /\ gev.count = 2
    /\ DOMAIN graph.edges = {<<"x", "a_b">>, <<"a_b", "x">>}
    /\ graph.edges[<<"x", "a_b">>].predicate = "Q"
    /\ graph.edges[<<"x", "a_b">>].weight = 2
    /\ graph.edges[<<"a_b", "x">>].predicate = "P"
    /\ Cardinality(DOMAIN graph.edges) = 2

\* The id that each subject or object text stands for: the text in lower
\* case with its spaces replaced by underscores.
NormalizedId(text) ==
    CASE text = <<"X">> -> "x"
      [] text = <<"A", " ", "b">> -> "a_b"
      [] text = <<>> -> ""

\* C13 (as claimed): after add_triple(s, p, o) the entities normalize(s) and
\* normalize(o) exist with the subject's and the object's type hint, and
\* query_relations(subject=normalize(s), object=normalize(o)) returns
\* exactly one relation, whose predicate is p upper-cased.
C13_TripleAsClaimed ==
    [][OpStep("add_triple") =>
          LET t   == gev'.triple
              sid == NormalizedId(t.subject)
              oid == NormalizedId(t.object)
              r   == RelationsOf(graph', Some(sid), None, Some(oid))
          IN  /\ sid \in DOMAIN graph'.nodes
              /\ oid \in DOMAIN graph'.nodes
              /\ graph'.nodes[sid].type = t.subject_type
              /\ graph'.nodes[oid].type = t.object_type
              /\ Cardinality(r) = 1
              /\ \A x \in r : x[2] = UpperCased(t.predicate)]_vars

\* C13 (amended): after add_triple(s, p, o) the entities normalize(s) and
\* normalize(o) exist; normalize(o) has the object's type hint, and
\* normalize(s) has the subject's type hint unless the two ids are equal;
\* query_relations(subject=normalize(s), object=normalize(o)) returns the
\* relation from normalize(s) to normalize(o) with predicate p upper-cased,
\* and returns exactly the relations that agree with each id that is not
\* empty: that one relation alone when neither id is empty.
C13_Triple ==
    [][OpStep("add_triple") =>
          LET t   == gev'.triple
              sid == NormalizedId(t.subject)
              oid == NormalizedId(t.object)
              r   == RelationsOf(graph', Some(sid), None, Some(oid))
          IN  /\ sid \in DOMAIN graph'.nodes
              /\ oid \in DOMAIN graph'.nodes
              /\ graph'.nodes[oid].type = t.object_type
              /\ sid # oid => graph'.nodes[sid].type = t.subject_type
              /\ \E x \in r : /\ x[1] = sid /\ x[3] = oid
                              /\ x[2] = UpperCased(t.predicate)
              /\ {<<x[1], x[3]>> : x \in r} =
                    {e \in DOMAIN graph'.edges :
                        /\ sid = "" \/ e[1] = sid
                        /\ oid = "" \/ e[2] = oid}
              /\ (sid # "" /\ oid # "") => Cardinality(r) = 1]_vars

\* C13 witness: add_triple("X", "p", "A b") with the hints t1 and t2, in a
\* graph that has another relation.
C13_Witness ==
    /\ gev.op = "add_triple"
    /\ gev.triple.subject = <<"X">> /\ gev.triple.object = <<"A", " ", "b">>
    /\ DOMAIN graph.edges = {<<"x", "a_b">>, <<"a_b", "a_b">>}
    /\ graph.edges[<<"x", "a_b">>].predicate = "P"
    /\ graph.nodes["x"].type = "t1" /\ graph.nodes["x"].name = "X"
    /\ graph.nodes["a_b"].type = "t2" /\ graph.nodes["a_b"].name = "A b"

\* C18: delete_entity on an entity that exists removes it and every
\* relation of which it is subject or object, and leaves every other entity
\* and every relation among the others as they were; delete_relation on a
\* relation that exists removes that relation alone and leaves every
\* entity, both endpoints included, and every other relation in place.
C18_DeleteFrame ==
    [][/\ (OpStep("delete_entity") /\ gev'.id \in DOMAIN TheGraph.nodes) =>
             /\ gev'.ret
             /\ DOMAIN graph'.nodes = DOMAIN TheGraph.nodes \ {gev'.id}
             /\ \A i \in DOMAIN graph'.nodes :
                   graph'.nodes[i] = TheGraph.nodes[i]
             /\ DOMAIN graph'.edges =
                   {e \in DOMAIN TheGraph.edges :
                       e[1] # gev'.id /\ e[2] # gev'.id}
             /\ \A e \in DOMAIN graph'.edges :
                   graph'.edges[e] = TheGraph.edges[e]
       /\ (OpStep("delete_relation")
             /\ <<gev'.subject_id, gev'.object_id>>
                   \in DOMAIN TheGraph.edges) =>
             /\ gev'.ret
             /\ graph'.nodes = TheGraph.nodes
             /\ DOMAIN graph'.edges =
                   DOMAIN TheGraph.edges
                     \ {<<gev'.subject_id, gev'.object_id>>}
             /\ \A e \in DOMAIN graph'.edges :
                   graph'.edges[e] = TheGraph.edges[e]]_vars

\* C18 witness: delete_entity("a_b") took the relations of a_b with it and
\* left x, the entity with the empty id and the relation between them.
C18_Witness ==
    /\ gev.op = "delete_entity" /\ gev.id = "a_b" /\ gev.ret
    /\ DOMAIN graph.nodes = {"x", ""}
    /\ DOMAIN graph.edges = {<<"x", "">>}
    /\ Cardinality(snapshot.edges) = 1

(***************************************************************************)
(* Claims about the queries, checked under SpecQuery.                      *)
(***************************************************************************)

\* An operation that reads leaves the graph and the snapshot as they were.
StoreUnchanged ==
    /\ graph'.nodes = TheGraph.nodes
    /\ graph'.edges = TheGraph.edges
    /\ snapshot' = snapshot

\* The relations of g, as query_relations returns them, that agree with
\* every filter that is not None.
FilteredByGiven(g, subject_id, predicate, object_id) ==
    {<<e[1], g.edges[e].predicate, e[2], g.edges[e]>> :
        e \in {f \in DOMAIN g.edges :
                  /\ subject_id = None \/ f[1] = subject_id[1]
                  /\ predicate = None
                       \/ g.edges[f].predicate = UpperCased(predicate[1])
                  /\ object_id = None \/ f[2] = object_id[1]}}

\* The relations of g that agree with every filter that is neither None
\* nor the empty string.
FilteredByNonEmpty(g, subject_id, predicate, object_id) ==
    {<<e[1], g.edges[e].predicate, e[2], g.edges[e]>> :
        e \in {f \in DOMAIN g.edges :
                  /\ subject_id \in {None, Some("")} \/ f[1] = subject_id[1]
                  /\ predicate \in {None, Some(<<>>)}
                       \/ g.edges[f].predicate = UpperCased(predicate[1])
                  /\ object_id \in {None, Some("")} \/ f[2] = object_id[1]}}

\* C14 (as claimed): query_relations returns exactly the stored relations
\* that satisfy every supplied filter (subject, object, predicate compared
\* with the stored one after upper-casing), all relations when none is
\* supplied, and changes nothing.
C14_QueryAsClaimed ==
    [][OpStep("query_relations") =>
          /\ gev'.ret = FilteredByGiven(TheGraph, gev'.subject_id,
                                        gev'.predicate, gev'.object_id)
          /\ StoreUnchanged]_vars

\* C14 (amended): query_relations returns exactly the stored relations that
\* satisfy every filter supplied as a non-empty string; an argument that is
\* None or the empty string is not a filter; the call changes nothing.
C14_Query ==
    [][OpStep("query_relations") =>
          /\ gev'.ret = FilteredByNonEmpty(TheGraph, gev'.subject_id,
                                           gev'.predicate, gev'.object_id)
          /\ StoreUnchanged]_vars

\* C14 witness: query_relations(subject_id="x", predicate="p") where x has
\* a P and a Q relation and a_b has a relation: the P relation of x alone
\* is returned.
C14_Witness ==
    /\ gev.op = "query_relations"
    /\ gev.subject_id = Some("x") /\ gev.predicate = Some(<<"p">>)
    /\ gev.object_id = None
    /\ DOMAIN graph.edges = {<<"x", "a_b">>, <<"x", "">>, <<"a_b", "x">>}
    /\ {<<r[1], r[2], r[3]>> : r \in gev.ret} = {<<"x", "P", "a_b">>}

\* C15: on an entity that is absent get_entity returns None,
\* query_entity_neighbors and multi_hop_query return an empty list and
\* delete_entity returns false, and delete_relation on an absent edge
\* returns false; each leaves the graph and the snapshot unchanged and
\* enters no lock.
C15_NotFound ==
    [][/\ (OpStep("get_entity") /\ gev'.id \notin DOMAIN TheGraph.nodes) =>
             (gev'.ret = None /\ ~gev'.locked /\ StoreUnchanged)
       /\ (OpStep("query_entity_neighbors")
             /\ gev'.id \notin DOMAIN TheGraph.nodes) =>
             (gev'.ret = <<>> /\ ~gev'.locked /\ StoreUnchanged)
       /\ (OpStep("multi_hop_query")
             /\ gev'.id \notin DOMAIN TheGraph.nodes) =>
             (gev'.ret = <<>> /\ ~gev'.locked /\ StoreUnchanged)
       /\ (OpStep("delete_entity")
             /\ gev'.id \notin DOMAIN TheGraph.nodes) =>
             (gev'.ret = FALSE /\ ~gev'.locked /\ StoreUnchanged)
       /\ (OpStep("delete_relation")
             /\ <<gev'.subject_id, gev'.object_id>>
                   \notin DOMAIN TheGraph.edges) =>
             (gev'.ret = FALSE /\ ~gev'.locked /\ StoreUnchanged)]_vars

\* C15 witness: multi_hop_query from a, which is absent from a graph that
\* has entities, with no predicate.
C15_Witness ==
    /\ gev.op = "multi_hop_query" /\ ~gev.found
    /\ gev.predicates = <<>>
    /\ gev.ret = <<>>
    /\ "x" \in DOMAIN graph.nodes

\* The graph is the chain a -> b -> c -> d with predicates P1, P2, P3.
IsChain ==
    /\ DOMAIN graph.edges = {<<"a", "b">>, <<"b", "c">>, <<"c", "d">>}
    /\ graph.edges[<<"a", "b">>].predicate = "P1"
    /\ graph.edges[<<"b", "c">>].predicate = "P2"
    /\ graph.edges[<<"c", "d">>].predicate = "P3"

\* C16: multi_hop_query with more predicates than max_depth returns no
\* path, whatever the graph; on the chain, the query from a with P1, P2, P3
\* returns no path at max_depth 2 and the path a, b, c, d alone at 3.
C16_HopBound ==
    gev.op = "multi_hop_query" =>
        /\ Len(gev.predicates) > gev.max_depth => gev.ret = <<>>
        /\ (IsChain /\ gev.id = "a" /\ Len(gev.predicates) = 3
              /\ \A i \in 1..3 :
                    UpperCased(gev.predicates[i]) = <<"P1", "P2", "P3">>[i]) =>
              /\ gev.max_depth = 2 => gev.ret = <<>>
              /\ gev.max_depth = 3 => gev.ret = << <<"a", "b", "c", "d">> >>

\* C16 witness: on the chain, the query from a with P1, P2, P3 at
\* max_depth 2.
C16_Witness ==
    /\ gev.op = "multi_hop_query" /\ gev.id = "a"
    /\ IsChain
    /\ Len(gev.predicates) = 3
    /\ gev.max_depth = 2
    /\ gev.ret = <<>>

\* The node sequences that start at start_id and follow, hop by hop, a
\* relation whose stored predicate is the upper-cased predicate of the hop.
PathsAlong(g, start_id, predicates) ==
    LET k == Len(predicates)
    IN  {path \in [1..(k + 1) -> DOMAIN g.nodes] :
            /\ path[1] = start_id
            /\ \A i \in 1..k :
                  /\ <<path[i], path[i + 1]>> \in DOMAIN g.edges
                  /\ g.edges[<<path[i], path[i + 1]>>].predicate =
                        UpperCased(predicates[i])}

\* C17: with no more predicates than max_depth, multi_hop_query from an
\* entity that exists returns exactly the node sequences that follow the
\* predicates hop by hop, each of them once.
C17_HopExhaustive ==
    (gev.op = "multi_hop_query" /\ gev.found
       /\ Len(gev.predicates) <= gev.max_depth) =>
        /\ Range(gev.ret) = PathsAlong(graph, gev.id, gev.predicates)
        /\ Len(gev.ret) =
              Cardinality(PathsAlong(graph, gev.id, gev.predicates))

\* C17 witness: the query from a with p1, p2 returns the three paths that
\* there are: over b to c, over b to d, and over c to c.
C17_Witness ==
    /\ gev.op = "multi_hop_query" /\ gev.id = "a"
    /\ Len(gev.predicates) = 2
    /\ Range(gev.ret) = {<<"a", "b", "c">>, <<"a", "b", "d">>,
                         <<"a", "c", "c">>}
    /\ Len(gev.ret) = 3

(***************************************************************************)
(* Claims about the Hybrid Retrieval Store, checked under SpecVector.      *)
(***************************************************************************)

\* A step of the VectorStore operation o.
VecStep(o) == vev'.op = o /\ <<conn, vev>>' # <<conn, vev>>

\* C21: add with an embedding whose length is not the configured dimension
\* fails with the validation error, takes no lock, and leaves the store as
\* it was: count(), the documents, the vectors and the lexical index.
C21_DimensionGuard ==
    [][(VecStep("add") /\ Len(vev'.embedding) # Dimension) =>
          /\ vev'.raised = "ValueError"
          /\ ~vev'.ret
          /\ ~vev'.locked
          /\ Count(conn') = Count(conn)
          /\ conn'.documents = conn.documents
          /\ conn'.vec = conn.vec
          /\ conn'.fts = conn.fts]_vars

\* C21 witness: add was rejected for its embedding on a store that holds a
\* document.
C21_Witness ==
    /\ vev.op = "add" /\ vev.raised = "ValueError"
    /\ Len(vev.embedding) # Dimension
    /\ Count(conn) = 1
    /\ conn.fts # {}

\* C22: when the vector backend is available, the ids that have a document
\* row are the ids that have a vector row, in every committed state of the
\* database, after adds and deletes that succeed and that fail part-way.
C22_DocumentVectorAtomic ==
    SQLITE_VEC_AVAILABLE => DOMAIN conn.documents = DOMAIN conn.vec

\* C22 witness: an add failed after it wrote the document row, and the
\* store holds the other document with its vector.
C22_Witness ==
    /\ SQLITE_VEC_AVAILABLE
    /\ vev.op = "add" /\ vev.raised = "Exception" /\ vev.locked
    /\ vev.doc_id \notin DOMAIN conn.documents
    /\ Count(conn) = 1
    /\ DOMAIN conn.vec = DOMAIN conn.documents

\* The documents whose content holds the term.
Containing(d, query) ==
    {i \in DOMAIN d.documents :
        Occurrences(d.documents[i].content, query) > 0}

\* The ids of a result list.
ResultIds(ret) == {ret[k].id : k \in DOMAIN ret}

\* C23 (as claimed): after any adds (re-adds of an id included) and
\* deletes, fulltext_search(term) returns a document if and only if the
\* document exists and its content holds the term.
C23_LexicalLockStepAsClaimed ==
    vev.op = "fulltext_search" =>
        /\ vev.raised = NoError
        /\ ResultIds(vev.ret) \subseteq Containing(conn, vev.query)
        /\ Cardinality(Containing(conn, vev.query)) <= vev.limit =>
              Containing(conn, vev.query) \subseteq ResultIds(vev.ret)

\* C26 (as claimed): with the vector backend unavailable, an add with an
\* embedding of the configured dimension succeeds, and fulltext_search
\* returns every document that holds the keyword, in ascending order of
\* rank.
C26_FallbackAsClaimed ==
    ~SQLITE_VEC_AVAILABLE =>
        /\ (vev.op = "add" /\ DimensionOk(vev.embedding)) => vev.ret
        /\ vev.op = "fulltext_search" =>
              /\ vev.raised = NoError
              /\ Cardinality(Containing(conn, vev.query)) <= vev.limit =>
                    Containing(conn, vev.query) \subseteq ResultIds(vev.ret)
              /\ \A j, k \in DOMAIN vev.ret :
                    j < k => vev.ret[j].rank <= vev.ret[k].rank

(***************************************************************************)
(* Claims about the searches, checked under SpecSearch.                    *)
(***************************************************************************)

\* C24: search returns at most top_k results, each a stored document with
\* its distance to the query, in ascending order of distance and so in
\* non-increasing order of score, and they are the nearest: no stored
\* document that is left out is strictly nearer than one that is returned.
C24_NearestFirst ==
    (vev.op = "search" /\ SQLITE_VEC_AVAILABLE /\ vev.raised = NoError) =>
        /\ Len(vev.ret) <= vev.top_k
        /\ Len(vev.ret) = IF vev.top_k < Count(conn) THEN vev.top_k
                          ELSE Count(conn)
        /\ \A j, k \in DOMAIN vev.ret : vev.ret[j].id = vev.ret[k].id => j = k
        /\ \A k \in DOMAIN vev.ret :
              /\ vev.ret[k].id \in DOMAIN conn.documents
              /\ vev.ret[k].content = conn.documents[vev.ret[k].id].content
              /\ vev.ret[k].distance =
                    Distance(conn.vec[vev.ret[k].id], vev.query_embedding)
              /\ vev.ret[k].score = <<1, 1 + vev.ret[k].distance>>
        /\ \A j, k \in DOMAIN vev.ret :
              j < k => /\ vev.ret[j].distance <= vev.ret[k].distance
                       /\ ScoreLeq(vev.ret[k].score, vev.ret[j].score)
        /\ \A i \in DOMAIN conn.documents \ ResultIds(vev.ret) :
              \A k \in DOMAIN vev.ret :
                  Distance(conn.vec[i], vev.query_embedding)
                      >= vev.ret[k].distance

\* C24 witness: search(<<0, 0>>, 2) on three documents returned the two
\* nearest, d1 at distance 0 before d2 at distance 1, and left out d3.
C24_Witness ==
    /\ vev.op = "search" /\ vev.top_k = 2 /\ Count(conn) = 3
    /\ Len(vev.ret) = 2
    /\ vev.ret[1].id = "d1" /\ vev.ret[1].distance = 0
    /\ vev.ret[2].id = "d2" /\ vev.ret[2].distance = 1

\* C25 (as claimed): search raises no error, for any query embedding.
C25_NeverFailsAsClaimed ==
    vev.op = "search" => vev.raised = NoError

\* C25 (amended): without the vector backend, search returns the empty
\* list and raises no error, for any query embedding; with it, search raises
\* the validation error exactly when the length of the query embedding is
\* not the configured dimension, and returns a list otherwise.
C25_SearchFailure ==
    vev.op = "search" =>
        /\ ~SQLITE_VEC_AVAILABLE => (vev.raised = NoError /\ vev.ret = <<>>)
        /\ SQLITE_VEC_AVAILABLE =>
              /\ Len(vev.query_embedding) # Dimension =>
                    vev.raised = "ValueError"
              /\ Len(vev.query_embedding) = Dimension =>
                    vev.raised = NoError

\* C25 witness: without the vector backend, search with an embedding that
\* is too short returned the empty list, on a store that holds a document.
C25_Witness ==
    /\ ~SQLITE_VEC_AVAILABLE
    /\ vev.op = "search" /\ Len(vev.query_embedding) # Dimension
    /\ vev.raised = NoError /\ vev.ret = <<>>
    /\ Count(conn) = 1

C28_NoRerankAsClaimed ==
    (vev.op = "semantic_search" /\ vev.kind = "results"
       /\ ~(vev.use_rerank /\ client.rerank_available
              /\ Len(vev.pool) > vev.rerank_top_n)) =>
        /\ vev.ret = Limit(vev.pool, vev.rerank_top_n)
        /\ Len(vev.ret) <= vev.rerank_top_n

(***************************************************************************)
(* Claims about the threads of one process, checked under SpecThread.      *)
(***************************************************************************)

\* C29 (as claimed): the threads of one process that call the getter of a
\* lock name, at the same time and for the first time included, all get the
\* same lock object, and a second lock object is never created.
C29_OneLockObjectAsClaimed ==
    /\ Cardinality(DOMAIN lockTimeout) <= 1
    /\ \A t, u \in Threads :
          (thread[t].lock # NoLock /\ thread[u].lock # NoLock) =>
              thread[t].lock = thread[u].lock

C31_IndependentAsClaimed ==
    \A p, q \in Procs :
        (/\ p # q
         /\ call[p].op = "vadd"
         /\ call[p].held # <<>>
         /\ call[q].op = "save"
         /\ call[q].pc = "acquire")
            => CanLock(q, Head(call[q].todo))

\* C35: in delete_entity and delete_relation the nested acquisition of the
\* knowledge lock by _save re-enters the lock object the call already
\* holds: the counter of the lock object is the nesting depth, the lock
\* file stays with the caller as long as a guard is entered and is free of
\* it once all guards are left, and a Timeout can only come from the outer
\* acquisition, never from the nested one.
C35_NestedAcquisition ==
    \A p \in Procs :
        call[p].op = "delete" =>
            /\ lockObj[p]["knowledge"] = Len(call[p].held)
            /\ call[p].held # <<>> => osLock["knowledge"] = p
            /\ call[p].held = <<>> => osLock["knowledge"] # p
            /\ call[p].exc = "Timeout" => Len(call[p].todo) = 2

\* C35 witness: a delete call has written the snapshot inside the nested
\* guard and has left both guards without an error, and another process
\* has acquired the knowledge lock since.
C35_Witness ==
    \E p, q \in Procs :
        /\ p # q
        /\ call[p].op = "delete"
        /\ call[p].pc = "exit"
        /\ call[p].wrote
        /\ call[p].exc = "none"
        /\ call[p].held = <<>>
        /\ osLock["knowledge"] = q
        /\ "knowledge" \in Range(call[q].held)

(***************************************************************************)
(* Claims about the readers, checked under SpecRead.                       *)
(***************************************************************************)

\* C32: a read operation never acquires a Lock Manager lock: while it
\* runs, the process is not waiting for a lock, has entered no guard, holds
\* no lock file and no lock object, and it does not end with Timeout,
\* whatever locks the other processes hold.
C32_ReadersTakeNoLock ==
    \A p \in Procs :
        call[p].op \in ReadOps =>
            /\ call[p].pc # "acquire"
            /\ call[p].todo = <<>>
            /\ call[p].held = <<>>
            /\ call[p].exc # "Timeout"
            /\ \A n \in LockNames : lockObj[p][n] = 0 /\ osLock[n] # p

\* C32 witness: a read of the graph or of the database has run to its
\* end while another process was inside the guarded section of the lock
\* of that resource, writing it.
C32_Witness ==
    \E p, q \in Procs :
        /\ p # q
        /\ call[p].op \in ReadOps
        /\ WriterGuards(call[p].op) = <<"knowledge">>
        /\ call[p].pc = "exit"
        /\ call[p].body
        /\ osLock["knowledge"] = q
        /\ call[q].pc = "dump"

(***************************************************************************)
(* Claim about header parsing, checked under SpecIndex.                    *)
(***************************************************************************)

\* C33 (as claimed): after build_index, the entry of every file it
\* recomputed has the file's modification time; when the file has a front
\* matter block that parses into a mapping the entry has that header's
\* date, tags, summary and type, and otherwise it has no date, no tags, an
\* empty summary and type "plain".
C33_HeaderParsingAsClaimed ==
    build.valid =>
        \A p \in build.updated :
            /\ build.ret[p].mtime = files[p].mtime
            /\ Metadata(build.ret[p].meta) =
                  IF files[p].hdr = "hdr" THEN Header ELSE Metadata("plain")

(***************************************************************************)
(* Claims about the ids of the Hybrid Store, checked under SpecStore.      *)
(***************************************************************************)

\* C34 (as claimed): delete reports success exactly when it removed the
\* document of the id.
C34_DeleteReportsRemovalAsClaimed ==
    [][VecStep("delete") =>
          (vev'.ret <=> /\ vev'.doc_id \in DOMAIN conn.documents
                        /\ vev'.doc_id \notin DOMAIN conn'.documents)]_vars

\* C34 (amended): the store starts empty; a successful add of an id makes
\* get(id) the content and the metadata of that add (the empty dict when
\* none was given) and makes count() one more when the id was absent; a
\* successful delete makes get(id) absent, removes the vector of the id
\* and makes count() one less when the id was present; every call leaves
\* get of the other ids as it was, and a call that fails leaves get and
\* count() as they were; get and count return what the store holds.  A
\* delete fails only by an error of the database: it reports success also
\* when the id was absent.
C34_IdSemantics ==
    [][/\ (VecStep("add") /\ vev'.ret) =>
             /\ GetOf(conn', vev'.doc_id) =
                   Some(<<vev'.content,
                          IF vev'.metadata = None THEN {}
                          ELSE vev'.metadata[1]>>)
             /\ Count(conn') = Count(conn)
                   + (IF GetOf(conn, vev'.doc_id) = None THEN 1 ELSE 0)
             /\ \A j \in DocIds \ {vev'.doc_id} :
                   GetOf(conn', j) = GetOf(conn, j)
       /\ (VecStep("add") /\ ~vev'.ret) =>
             /\ Count(conn') = Count(conn)
             /\ \A j \in DocIds : GetOf(conn', j) = GetOf(conn, j)
       /\ VecStep("delete") =>
             /\ vev'.ret =>
                   /\ GetOf(conn', vev'.doc_id) = None
                   /\ vev'.doc_id \notin DOMAIN conn'.vec
                   /\ Count(conn') = Count(conn)
                         - (IF GetOf(conn, vev'.doc_id) = None THEN 0 ELSE 1)
             /\ ~vev'.ret =>
                   /\ Count(conn') = Count(conn)
                   /\ GetOf(conn', vev'.doc_id) = GetOf(conn, vev'.doc_id)
             /\ \A j \in DocIds \ {vev'.doc_id} :
                   GetOf(conn', j) = GetOf(conn, j)
       /\ VecStep("get") =>
             /\ vev'.ret = GetOf(conn, vev'.doc_id)
             /\ conn' = conn
       /\ VecStep("count") =>
             /\ vev'.ret = Cardinality({j \in DocIds : GetOf(conn, j) # None})
             /\ conn' = conn]_vars

\* C34 witness: after an id was added twice and another id was added and
\* deleted, a delete of the absent id has reported success.
C34_Witness ==
    /\ vev.op = "delete"
    /\ vev.ret
    /\ vev.doc_id = "d2"
    /\ GetOf(conn, "d1") = Some(<< <<"b", "a", "a">>, {<<"k", "v">>} >>)
    /\ conn.documents["d1"].rowid = MaxRowid

(***************************************************************************)
(* Claim about the termination of multi_hop_query, checked under           *)
(* SpecQuery.                                                              *)
(***************************************************************************)

\* C38: on every graph, cycles and relations from an entity to itself
\* included, multi_hop_query returns: every path it returns has one node
\* more than there are predicates, whatever max_depth, and there are at
\* most n^k of them on n entities with k predicates; it leaves the graph
\* and the snapshot as they were and enters no lock; and a path may visit
\* a node again: with a relation P1 from a to c and a relation P2 from c to
\* itself, the query from a with P1, P2 returns the path a, c, c.
C38_MultiHopTerminates ==
    [][OpStep("multi_hop_query") =>
          LET k == Len(gev'.predicates)
              n == Cardinality(DOMAIN TheGraph.nodes)
          IN  /\ StoreUnchanged
              /\ ~gev'.locked
              /\ \A i \in 1..Len(gev'.ret) : Len(gev'.ret[i]) = k + 1
              /\ Len(gev'.ret) <= (IF k = 0 THEN 1 ELSE n ^ k)
              /\ (/\ gev'.id = "a"
                  /\ k = 2
                  /\ gev'.max_depth >= 2
                  /\ {<<"a", "c">>, <<"c", "c">>} \subseteq DOMAIN TheGraph.edges
                  /\ TheGraph.edges[<<"a", "c">>].predicate = UpperCased(gev'.predicates[1])
                  /\ TheGraph.edges[<<"c", "c">>].predicate = UpperCased(gev'.predicates[2]))
                    => <<"a", "c", "c">> \in Range(gev'.ret)]_vars

\* C38 witness: on a graph whose only relations are the one from a to c
\* and the one from c to itself, the query from a has returned the path
\* that visits c twice, and nothing else.
C38_Witness ==
    /\ gev.op = "multi_hop_query"
    /\ gev.id = "a"
    /\ DOMAIN graph.edges = {<<"a", "c">>, <<"c", "c">>}
    /\ gev.ret = << <<"a", "c", "c">> >>

(***************************************************************************)
(* Claims about processes that share one snapshot, checked under           *)
(* SpecShared.                                                             *)
(***************************************************************************)

\* C36 (as claimed): once every mutator of every process has returned and
\* none has failed, the snapshot holds every entity and every relation
\* that a mutator which returned true has added and that none has deleted
\* since.
C36_NoLostUpdateAsClaimed ==
    ((\A p \in Procs : stores[p].pc = "idle") /\ ~done.failed) =>
        /\ done.entities \subseteq {r.id : r \in snapshot.nodes}
        /\ done.relations \subseteq
              {<<r.source, r.target>> : r \in snapshot.edges}

\* C37 (as claimed): when add_entity or add_relation has failed with
\* Timeout, the graph of the process is the graph it had before the call.
C37_UnchangedOnTimeoutAsClaimed ==
    \A p \in Procs :
        (stores[p].ret = "Timeout"
           /\ stores[p].op \in {"add_entity", "add_relation"}) =>
            /\ stores[p].graph.nodes = stores[p].before.nodes
            /\ stores[p].graph.edges = stores[p].before.edges

(***************************************************************************)
(* Claims about append_daily_log, checked under SpecTool.                  *)
(***************************************************************************)

\* C39 (as claimed): the daily log file begins with a header block, no
\* other block of it is a header block, and the entry of every call that
\* has returned is in the file after the header.
C39_OneHeaderAsClaimed ==
    /\ logFile # <<>> =>
          /\ logFile[1][1] = "header"
          /\ \A i \in 2..Len(logFile) : logFile[i][1] # "header"
    /\ \A e \in Entries :
          <<e, "Appended">> \in returned =>
              \E i \in 2..Len(logFile) : logFile[i] = <<"entry", e>>

\* C40: the fact of every call that has returned success is in the
\* persisted list exactly once, whatever the other processes do; and a
\* call that returns the warning found no active fact with the id it was
\* to supersede in the persisted list and leaves that list as it is.
C40_FactListAtomic ==
    [][/\ \A f \in FactIds :
             <<f, "Added">> \in returned' =>
                 Cardinality({i \in DOMAIN itemsFile' :
                                 itemsFile'[i].id = f}) = 1
       /\ \A p \in Procs :
             (tool[p].pc = "update"
                /\ <<tool[p].id, "Warning">> \in returned') =>
                 /\ itemsFile' = itemsFile
                 /\ NoneSuperseded(itemsFile, tool[p].sup)]_vars

\* C40 witness: two calls have added their facts, the second superseding
\* the first, and a third call, which was to supersede a fact that is not
\* active, has returned the warning.
C40_Witness ==
    /\ Len(itemsFile) = 2
    /\ itemsFile[1].status = "superseded"
    /\ itemsFile[1].supersededBy = itemsFile[2].id
    /\ \E f \in FactIds : <<f, "Warning">> \in returned
    /\ \A p \in Procs : tool[p].pc = "idle"

\* Each specification starts its own subsystem in any of its initial
\* states and the other subsystems with nothing persisted.
IndexIdle == IndexInit /\ indexFile = NoIndex

GraphIdle == GraphInit /\ snapshot = NoSnapshot

VectorIdle == VectorInit /\ SQLITE_VEC_AVAILABLE

ThreadIdle == ThreadInit /\ ~threadLocal

InitLock == LockInit /\ IndexIdle /\ GraphIdle /\ VectorIdle /\ ThreadIdle /\ SharedInit /\ ToolInit

InitIndex == LockInit /\ IndexInit /\ GraphIdle /\ VectorIdle /\ ThreadIdle /\ SharedInit /\ ToolInit

InitGraph == LockInit /\ IndexIdle /\ GraphInit /\ VectorIdle /\ ThreadIdle /\ SharedInit /\ ToolInit

SpecLock == InitLock /\ [][LockNext]_vars

SpecIndex == InitIndex /\ [][IndexNext]_vars

SpecGraph == InitGraph /\ [][GraphNext]_vars

SpecRel == InitLock /\ [][RelNext]_vars

SpecRead == InitLock /\ [][ReadNext]_vars

SpecShared == InitLock /\ [][SharedNext]_vars

SpecTool == InitLock /\ [][ToolNext]_vars

InitQuery == LockInit /\ IndexIdle /\ QueryInit /\ VectorIdle /\ ThreadIdle /\ SharedInit /\ ToolInit

SpecQuery == InitQuery /\ [][QueryNext]_vars

InitVector == LockInit /\ IndexIdle /\ GraphIdle /\ VectorInit /\ ThreadIdle /\ SharedInit /\ ToolInit

SpecVector == InitVector /\ [][VectorNext]_vars

SpecStore == InitVector /\ [][StoreNext]_vars

InitSearch == LockInit /\ IndexIdle /\ GraphIdle /\ SearchInit /\ ThreadIdle /\ SharedInit /\ ToolInit

SpecSearch == InitSearch /\ [][SearchNext]_vars

InitThread == LockInit /\ IndexIdle /\ GraphIdle /\ VectorIdle /\ ThreadInit /\ SharedInit /\ ToolInit

SpecThread == InitThread /\ [][ThreadNext]_vars

====
